---- MODULE Spec2Model ----
(***************************************************************************)
(* Model of the nco-control plan engine (packages/core): the diff engine,  *)
(* the plan orchestrator generatePlan, the validation step it runs first   *)
(* and the apply command that puts the planned configurations.             *)
(*                                                                         *)
(* JSON values are tagged records [t, v]: t is the kind ("num", "str",     *)
(* "null", "arr", "obj"), v the payload: a scalar's text, an array's       *)
(* elements, or an object's <<key, value>> pairs in insertion order.       *)
(* Strings that the code builds by concatenation are sequences of their    *)
(* parts.                                                                  *)
(***************************************************************************)
EXTENDS Integers, Sequences, FiniteSets, TLC

VARIABLES
    command,             \* "plan" (runPlan) or "apply" (runApply)
    pc,                  \* control point of the run
    config,              \* ProjectConfig: [token, skip]
    options,             \* command options: [channel]
    files,               \* the project on disk, as discovery + loading return it
    env,                 \* getEnvironment(projectDir): variable name -> value
    validationResult,    \* generatePlan: what validateProject returned
    channels,            \* generatePlan: channels after loadAllChannelConfigs
    channelsWithSecrets, \* generatePlan: channels after substitution
    remoteChannels,      \* generatePlan: Set of remote channel names
    channelPlans,        \* generatePlan: ChannelPlan[] built so far
    lookups,             \* remoteConfigs map of each generateChannelPlan call
    plan,                \* the Plan returned, or NoPlan
    error,               \* the error raised, or NoError
    configsToApply,      \* applyConfigs: getConfigsToApply(plan)
    configMap,           \* applyConfigs: buildConfigMap(channelsWithSecrets)
    results,             \* applyConfigs: ConfigApplyResult[] so far
    applyResult,         \* the ApplyResult returned, or NoResult
    calls,               \* remote calls made so far, in order, with their outcome
    store,               \* the remote objects this model follows: <<channel, name>> -> object
    args,                \* arguments of a library function under call, or NoArgs
    returned             \* what the calls of that function returned so far

planVars == <<validationResult, channels, channelsWithSecrets, remoteChannels,
              channelPlans, lookups, plan>>

applyVars == <<configsToApply, configMap, results, applyResult>>

\* what a run works on and does not touch, putConfig's writes apart
inputVars == <<command, config, options, files, env, store>>

callVars == <<args, returned>>

runVars == <<command, pc, config, options, files, env, validationResult, channels,
             channelsWithSecrets, remoteChannels, channelPlans, lookups, plan, error,
             configsToApply, configMap, results, applyResult, calls, store>>

vars == <<command, pc, config, options, files, env, validationResult, channels,
          channelsWithSecrets, remoteChannels, channelPlans, lookups, plan, error,
          configsToApply, configMap, results, applyResult, calls, store, args, returned>>

----
\* JSON values

Num(s) == [t |-> "num", v |-> s]

Str(s) == [t |-> "str", v |-> s]

Null == [t |-> "null", v |-> ""]

Arr(elems) == [t |-> "arr", v |-> elems]

Obj(pairs) == [t |-> "obj", v |-> pairs]

\* JavaScript's undefined, as a Map key or a missing property
Undefined == [t |-> "undefined", v |-> ""]

EmptyObject == Obj(<<>>)

Keys(o) == [i \in 1..Len(o.v) |-> o.v[i][1]]

Has(o, k) == \E i \in 1..Len(o.v) : o.v[i][1] = k

Get(o, k) == IF Has(o, k)
             THEN o.v[CHOOSE i \in 1..Len(o.v) : o.v[i][1] = k][2]
             ELSE Undefined

\* template-literal rendering of an array index
IndexText(i) == CASE i = 0 -> "0" [] i = 1 -> "1" [] i = 2 -> "2"
                  [] i = 3 -> "3" [] OTHER -> "n"

----
\* deep-diff, as diffConfigs uses it: deepDiff(lhs, rhs) lists the changes
\* that turn lhs into rhs

DiffNew(path, rhs) == [kind |-> "N", path |-> path, rhs |-> rhs]

DiffDeleted(path, lhs) == [kind |-> "D", path |-> path, lhs |-> lhs]

DiffEdit(path, lhs, rhs) == [kind |-> "E", path |-> path, lhs |-> lhs, rhs |-> rhs]

DiffArray(path, index, item) == [kind |-> "A", path |-> path, index |-> index, item |-> item]

realTypeOf(x) == x.t

RECURSIVE deepDiffAt(_, _, _)
RECURSIVE diffElements(_, _, _, _)
RECURSIVE diffLhsKeys(_, _, _, _)
RECURSIVE diffRhsKeys(_, _, _, _)

\* array tail: items beyond the common length, from the highest index down
RECURSIVE arrayTail(_, _, _, _)
arrayTail(lhs, rhs, path, n) ==
    LET i == Len(rhs.v) - 1
        j == Len(lhs.v) - 1
        lo == IF i < j THEN i ELSE j
    IN IF n <= lo THEN <<>>
       ELSE IF i > j
            THEN <<DiffArray(path, n, DiffNew(<<>>, rhs.v[n + 1]))>>
                 \o arrayTail(lhs, rhs, path, n - 1)
            ELSE <<DiffArray(path, n, DiffDeleted(<<>>, lhs.v[n + 1]))>>
                 \o arrayTail(lhs, rhs, path, n - 1)

\* common elements, from the highest common index down to 0
diffElements(lhs, rhs, path, n) ==
    IF n < 0 THEN <<>>
    ELSE deepDiffAt(lhs.v[n + 1], rhs.v[n + 1], Append(path, IndexText(n)))
         \o diffElements(lhs, rhs, path, n - 1)

\* keys of lhs in order: recurse when rhs has the key, else a deletion
diffLhsKeys(lhs, rhs, path, n) ==
    IF n > Len(lhs.v) THEN <<>>
    ELSE LET k == lhs.v[n][1]
         IN (IF Has(rhs, k)
             THEN deepDiffAt(lhs.v[n][2], Get(rhs, k), Append(path, k))
             ELSE <<DiffDeleted(Append(path, k), lhs.v[n][2])>>)
            \o diffLhsKeys(lhs, rhs, path, n + 1)

\* keys only rhs has, in order; the loop's `if (k)` skips the empty key
diffRhsKeys(lhs, rhs, path, n) ==
    IF n > Len(rhs.v) THEN <<>>
    ELSE LET k == rhs.v[n][1]
         IN (IF ~Has(lhs, k) /\ k # ""
             THEN <<DiffNew(Append(path, k), rhs.v[n][2])>>
             ELSE <<>>)
            \o diffRhsKeys(lhs, rhs, path, n + 1)

deepDiffAt(lhs, rhs, path) ==
    IF realTypeOf(lhs) # realTypeOf(rhs)
    THEN <<DiffEdit(path, lhs, rhs)>>
    ELSE IF lhs.t = "arr"
    THEN LET i == Len(rhs.v) - 1
             j == Len(lhs.v) - 1
         IN arrayTail(lhs, rhs, path, IF i > j THEN i ELSE j)
            \o diffElements(lhs, rhs, path, IF i < j THEN i ELSE j)
    ELSE IF lhs.t = "obj"
    THEN diffLhsKeys(lhs, rhs, path, 1) \o diffRhsKeys(lhs, rhs, path, 1)
    ELSE IF lhs # rhs
    THEN <<DiffEdit(path, lhs, rhs)>>
    ELSE <<>>

deepDiff(lhs, rhs) == deepDiffAt(lhs, rhs, <<>>)

----
\* diff/differ.ts

RECURSIVE Join(_)
\* (d.path ?? []).join('/')
Join(segs) == IF segs = <<>> THEN <<>>
              ELSE IF Len(segs) = 1 THEN <<segs[1]>>
              ELSE <<segs[1], "/">> \o Join(Tail(segs))

\* isRelevantDiff that keeps every difference
isRelevantDiffAll(d) == TRUE

\* isRelevantDiff that drops a $schema at any depth
isRelevantDiffAnyDepth(d) == ~(\E i \in 1..Len(d.path) : d.path[i] = "$schema")

isRelevantDiff(d) == ~(d.path # <<>> /\ d.path[1] = "$schema")

\* convertDiff that reports an edit with its two values exchanged
convertDiffSwapped(d) ==
    LET path == <<"/">> \o Join(d.path)
        arrayPath == path \o <<"/", IndexText(IF d.kind = "A" THEN d.index ELSE 0)>>
    IN CASE d.kind = "N" -> [path |-> path, type |-> "add", newValue |-> d.rhs]
         [] d.kind = "D" -> [path |-> path, type |-> "remove", oldValue |-> d.lhs]
         [] d.kind = "E" -> [path |-> path, type |-> "change",
                             oldValue |-> d.rhs, newValue |-> d.lhs]
         [] d.kind = "A" ->
              IF d.item.kind = "N"
              THEN [path |-> arrayPath, type |-> "add", newValue |-> d.item.rhs]
              ELSE [path |-> arrayPath, type |-> "remove", oldValue |-> d.item.lhs]

convertDiff(d) ==
    LET path == <<"/">> \o Join(d.path)
        arrayPath == path \o <<"/", IndexText(IF d.kind = "A" THEN d.index ELSE 0)>>
    IN CASE d.kind = "N" -> [path |-> path, type |-> "add", newValue |-> d.rhs]
         [] d.kind = "D" -> [path |-> path, type |-> "remove", oldValue |-> d.lhs]
         [] d.kind = "E" -> [path |-> path, type |-> "change",
                             oldValue |-> d.lhs, newValue |-> d.rhs]
         [] d.kind = "A" ->
              IF d.item.kind = "N"
              THEN [path |-> arrayPath, type |-> "add", newValue |-> d.item.rhs]
              ELSE IF d.item.kind = "D"
              THEN [path |-> arrayPath, type |-> "remove", oldValue |-> d.item.lhs]
              ELSE [path |-> arrayPath, type |-> "change",
                    oldValue |-> d.item.lhs, newValue |-> d.item.rhs]
         [] OTHER -> [path |-> path, type |-> "change"]

RECURSIVE FilterMap(_)
\* differences.filter(isRelevantDiff).map(convertDiff)
FilterMap(ds) == IF ds = <<>> THEN <<>>
                 ELSE (IF isRelevantDiff(Head(ds)) THEN <<convertDiff(Head(ds))>> ELSE <<>>)
                      \o FilterMap(Tail(ds))

diffConfigs(local, remote) == FilterMap(deepDiff(remote, local))

configsEqual(local, remote) == Len(diffConfigs(local, remote)) = 0

----
\* plan/service.ts: generateConfigPlan, generateChannelPlan's lookup

\* a Map key: Map.get compares ids by value
HasKey(lookup, key) == key \in DOMAIN lookup

RECURSIVE BuildLookup(_, _)
\* for (const config of configs) remoteConfigs.set(config.id, config)
BuildLookup(configs, n) ==
    IF n = 0 THEN [k \in {} |-> EmptyObject]
    ELSE LET before == BuildLookup(configs, n - 1)
             c == configs[n]
         IN [k \in DOMAIN before \cup {Get(c, "id")} |->
                IF k = Get(c, "id") THEN c ELSE before[k]]

\* the lookup key taken from the file name alone
ConfigKeyNameOnly(localConfig) == Str(localConfig.name)

\* localConfig.id ?? localConfig.name
ConfigKey(localConfig) ==
    IF localConfig.id.t \in {"undefined", "null"}
    THEN Str(localConfig.name)
    ELSE localConfig.id

\* generateConfigPlan reporting an unmatched config as an update
generateConfigPlanUpdateOnly(localConfig, remoteConfigs) ==
    LET configId == ConfigKey(localConfig)
    IN IF ~HasKey(remoteConfigs, configId)
       THEN [name |-> localConfig.name, status |-> "update",
             diffs |-> diffConfigs(localConfig.merged, EmptyObject)]
       ELSE LET diffs == diffConfigs(localConfig.merged, remoteConfigs[configId])
            IN IF Len(diffs) = 0
               THEN [name |-> localConfig.name, status |-> "unchanged", diffs |-> <<>>]
               ELSE [name |-> localConfig.name, status |-> "update", diffs |-> diffs]

\* generateConfigPlan without the branch for an empty diff list
generateConfigPlanNoUnchanged(localConfig, remoteConfigs) ==
    LET configId == ConfigKey(localConfig)
    IN IF ~HasKey(remoteConfigs, configId)
       THEN [name |-> localConfig.name, status |-> "create",
             diffs |-> diffConfigs(localConfig.merged, EmptyObject)]
       ELSE [name |-> localConfig.name, status |-> "update",
             diffs |-> diffConfigs(localConfig.merged, remoteConfigs[configId])]

generateConfigPlan(localConfig, remoteConfigs) ==
    LET configId == ConfigKey(localConfig)
    IN IF ~HasKey(remoteConfigs, configId)
       THEN [name |-> localConfig.name, status |-> "create",
             diffs |-> diffConfigs(localConfig.merged, EmptyObject)]
       ELSE LET diffs == diffConfigs(localConfig.merged, remoteConfigs[configId])
            IN IF Len(diffs) = 0
               THEN [name |-> localConfig.name, status |-> "unchanged", diffs |-> <<>>]
               ELSE [name |-> localConfig.name, status |-> "update", diffs |-> diffs]

\* the ChannelPlan with its ConfigPlans in the opposite order
CompareConfigsReversed(channel, existsRemotely, remoteConfigs) ==
    [channel |-> channel.name,
     existsRemotely |-> existsRemotely,
     configs |-> [j \in 1..Len(channel.configs) |->
                    generateConfigPlan(channel.configs[Len(channel.configs) + 1 - j],
                                       remoteConfigs)]]

\* for (const localConfig of channel.configs) configPlans.push(generateConfigPlan(..))
CompareConfigs(channel, existsRemotely, remoteConfigs) ==
    [channel |-> channel.name,
     existsRemotely |-> existsRemotely,
     configs |-> [j \in 1..Len(channel.configs) |->
                    generateConfigPlan(channel.configs[j], remoteConfigs)]]

----
\* config/loader.ts: the ChannelConfig pushed for a file

ConfigPath(channelName, configName) == <<channelName, "/", configName, ".yaml">>

LoadedConfig(channelName, configName, merged) ==
    [name |-> configName,
     path |-> ConfigPath(channelName, configName),
     merged |-> merged,
     schemaUrl |-> Get(merged, "$schema"),
     id |-> Get(merged, "id")]

----
\* secrets/substitute.ts

\* the variable a string's ${...} placeholder names ("" when it has none)
PlaceholderName(text) == CASE text = "${V}" -> "V"
                           [] text = "${W}" -> "W"
                           [] OTHER -> ""

RECURSIVE AddUnique(_, _)
\* if (!placeholders.includes(varName)) placeholders.push(varName), for each name
AddUnique(found, names) ==
    IF names = <<>> THEN found
    ELSE AddUnique(IF \E i \in 1..Len(found) : found[i] = Head(names)
                   THEN found ELSE Append(found, Head(names)),
                   Tail(names))

RECURSIVE traverse(_, _)
RECURSIVE traverseItems(_, _, _)
traverseItems(items, found, n) ==
    IF n > Len(items) THEN found
    ELSE traverseItems(items, traverse(items[n], found), n + 1)

traverse(val, found) ==
    IF val.t = "str"
    THEN (IF PlaceholderName(val.v) # "" THEN AddUnique(found, <<PlaceholderName(val.v)>>)
          ELSE found)
    ELSE IF val.t = "arr" THEN traverseItems(val.v, found, 1)
    ELSE IF val.t = "obj"
    THEN traverseItems([i \in 1..Len(val.v) |-> val.v[i][2]], found, 1)
    ELSE found

findPlaceholders(value) == traverse(value, <<>>)

RECURSIVE SelectSeqNotIn(_, _)
\* placeholders.filter((name) => !(name in env))
SelectSeqNotIn(names, e) ==
    IF names = <<>> THEN <<>>
    ELSE (IF Head(names) \in DOMAIN e THEN <<>> ELSE <<Head(names)>>)
         \o SelectSeqNotIn(Tail(names), e)

checkMissingEnvVars(cfg, e) == SelectSeqNotIn(findPlaceholders(cfg), e)

RECURSIVE substituteValue(_, _)
substituteValue(value, e) ==
    IF value.t = "str"
    THEN (IF PlaceholderName(value.v) # ""
          THEN Str(IF PlaceholderName(value.v) \in DOMAIN e
                   THEN e[PlaceholderName(value.v)] ELSE "")
          ELSE value)
    ELSE IF value.t = "arr"
    THEN Arr([i \in 1..Len(value.v) |-> substituteValue(value.v[i], e)])
    ELSE IF value.t = "obj"
    THEN Obj([i \in 1..Len(value.v) |-> <<value.v[i][1], substituteValue(value.v[i][2], e)>>])
    ELSE value

\* substituteSecrets leaving out the check for missing variables
substituteSecretsUnchecked(cfg, e) ==
    [threw |-> FALSE, missingVars |-> <<>>, value |-> substituteValue(cfg, e)]

\* [threw, missingVars, value]: throws MissingEnvVarError or returns the substituted config
substituteSecrets(cfg, e) ==
    LET missingVars == checkMissingEnvVars(cfg, e)
    IN IF Len(missingVars) > 0
       THEN [threw |-> TRUE, missingVars |-> missingVars, value |-> cfg]
       ELSE [threw |-> FALSE, missingVars |-> <<>>, value |-> substituteValue(cfg, e)]

----
\* Bounds and input universes

\* configuration files per channel directory
MaxConfigs == 1

\* objects in one listConfigs response
MaxRemoteConfigs == 2

\* names in one listChannels response
MaxRemoteChannels == 2

\* errors the schema validator reports for one file
MaxErrors == 1

\* channel directories, in discoverChannels' sorted order
ChannelNames == <<"no", "se">>

\* file names without extension, in loadChannelConfigs' sorted order
ConfigNames == <<"n", "x">>

RemoteChannelNames == {"demo", "no", "se"}

Opt(present, pair) == IF present THEN <<pair>> ELSE <<>>

\* merged objects of the files of a whole run
RunObjects ==
    { Obj(Opt(s, <<"$schema", Str("s")>>) \o Opt(i, <<"id", Str("x")>>) \o <<<<"a", a>>>>) :
        <<s, i, a>> \in { <<FALSE, TRUE, Num("1")>>, <<TRUE, FALSE, Str("${V}")>> } }

\* remote objects a run's listConfigs may return
RunRemoteObjects ==
    { Obj(<< <<"id", Str(i)>>, <<"a", Num(a)>> >>) :
        <<i, a>> \in { <<"n", "1">>, <<"x", "1">> } }

\* merged objects for the planning of a single channel
ChannelObjects ==
    { Obj(Opt(s, <<"$schema", Str("s")>>) \o Opt(i, <<"id", Str("x")>>)
          \o Opt(a, <<"a", Num("1")>>) \o Opt(b, <<"b", Num("2")>>)) :
        <<s, i, a, b>> \in BOOLEAN \X BOOLEAN \X BOOLEAN \X BOOLEAN }

\* remote objects listed for that channel
ChannelRemoteObjects ==
    { Obj(<<<<"id", Str(i)>>>> \o Opt(a, <<"a", Num("1")>>) \o <<<<"b", Num(b)>>>>) :
        <<i, a, b>> \in {"n", "x"} \X BOOLEAN \X {"2", "3"} }

SeqsUpTo(S, n) == UNION { [1..k -> S] : k \in 0..n }

\* increasing choices of k file names
NameChoices(k) ==
    { f \in [1..k -> 1..Len(ConfigNames)] : \A j \in 1..(k - 1) : f[j] < f[j + 1] }

\* the configs of one channel directory: 1..MaxConfigs files, names in sorted order
ChannelConfigs(channelName, objects) ==
    UNION { { [j \in 1..k |-> LoadedConfig(channelName, ConfigNames[fc[1][j]], fc[2][j])] :
                fc \in NameChoices(k) \X [1..k -> objects] } :
            k \in 1..MaxConfigs }

Channel(channelName, configs) == [name |-> channelName, configs |-> configs]

RECURSIVE ProjectsFrom(_)
\* every choice of channel directories among ChannelNames[n..], in sorted order
ProjectsFrom(n) ==
    IF n > Len(ChannelNames) THEN { <<>> }
    ELSE LET rest == ProjectsFrom(n + 1)
         IN rest \cup
            { <<Channel(ChannelNames[n], cs)>> \o r :
                <<cs, r>> \in ChannelConfigs(ChannelNames[n], RunObjects) \X rest }

Projects == ProjectsFrom(1)

\* projects of an apply run: the last channel directory only
ApplyProjects == ProjectsFrom(Len(ChannelNames))

\* environments (.env file merged with process.env) over the given names
EnvsOver(names) == UNION { [bound -> {"v"}] : bound \in SUBSET names }

PlanEnvs == EnvsOver({"V", "NCOCTL_API_TOKEN"})

ApplyEnvs == EnvsOver({"V", "NCOCTL_API_TOKEN", "NCO_API_TOKEN"})

\* what the HTTP request of the API client can raise: an ApiError for a
\* response that is not ok, fetch's TypeError, JSON.parse's SyntaxError
RemoteFailures ==
    { [kind |-> "ApiError", statusCode |-> 404],
      [kind |-> "ApiError", statusCode |-> 500],
      [kind |-> "TypeError", statusCode |-> 0],
      [kind |-> "SyntaxError", statusCode |-> 0] }

NoFailure == [kind |-> "none", statusCode |-> 0]

\* no remote object is followed
EmptyStore == [k \in {} |-> EmptyObject]

RECURSIVE Stringified(_)
\* what JSON.stringify keeps of a value: a property whose value is undefined
\* or a function is left out, such an array element becomes null
Stringified(value) ==
    IF value.t = "arr"
    THEN Arr([i \in 1..Len(value.v) |->
                 IF value.v[i].t \in {"undefined", "function"} THEN Null
                 ELSE Stringified(value.v[i])])
    ELSE IF value.t = "obj"
    THEN LET kept == SelectSeq(value.v, LAMBDA pair : pair[2].t \notin {"undefined", "function"})
         IN Obj([i \in 1..Len(kept) |-> <<kept[i][1], Stringified(kept[i][2])>>])
    ELSE value

\* the store after a PUT of body to .../channels/${channel}/configurations/${configName}
StorePut(st, channelName, configName, body) ==
    [k \in DOMAIN st \cup {<<channelName, configName>>} |->
        IF k = <<channelName, configName>> THEN Stringified(body) ELSE st[k]]

\* a remote call and how it ended
Call(op, channelName, configName, failure) ==
    [op |-> op, channel |-> channelName, config |-> configName, failure |-> failure]

\* errors Ajv reports for a file, by instance path
AjvErrors == { [instancePath |-> p, text |-> "must be number"] : p \in {"", "/a"} }

NoPlan == [none |-> TRUE]

NoError == [name |-> "none"]

NoValidation == [none |-> TRUE]

NoResult == [none |-> TRUE]

NoArgs == [none |-> TRUE]

\* no library function is under call
NoCall == args = NoArgs /\ returned = <<>>

----
\* Initial states

\* what a run starts from, whatever the command and the project
Started ==
    /\ pc = "validate"
    /\ config \in [token : {Undefined, Str("t")}, skip : BOOLEAN]
    /\ options \in [channel : {"", "se"}]
    /\ validationResult = NoValidation
    /\ channels = <<>>
    /\ channelsWithSecrets = <<>>
    /\ remoteChannels = {}
    /\ channelPlans = <<>>
    /\ lookups = <<>>
    /\ plan = NoPlan
    /\ error = NoError
    /\ configsToApply = <<>>
    /\ configMap = [k \in {} |-> EmptyObject]
    /\ results = <<>>
    /\ applyResult = NoResult
    /\ calls = <<>>
    /\ store = EmptyStore
    /\ NoCall

\* a run of generatePlan(projectDir, config, options)
Init ==
    /\ command = "plan"
    /\ files \in Projects
    /\ env \in PlanEnvs
    /\ Started

\* a run of runApply(options)
InitApply ==
    /\ command = "apply"
    /\ files \in ApplyProjects
    /\ env \in ApplyEnvs
    /\ Started

----
\* validate/service.ts

\* JavaScript truthiness of a JSON value
Truthy(x) == /\ x.t \notin {"undefined", "null"}
             /\ x # Str("")
             /\ x # Num("0")

RECURSIVE Flatten(_)
Flatten(seqs) == IF seqs = <<>> THEN <<>> ELSE Head(seqs) \o Flatten(Tail(seqs))

\* options.channel filter of discoverChannels' result
FilterChannels(chs, name) ==
    IF name # "" THEN SelectSeq(chs, LAMBDA ch : ch.name = name) ELSE chs

\* schema/validator.ts: an Ajv error as a ValidationError
ToValidationError(filePath, ajvError) ==
    [filePath |-> filePath,
     fieldPath |-> IF ajvError.instancePath = "" THEN "/" ELSE ajvError.instancePath,
     message |-> <<IF ajvError.instancePath = "" THEN "root" ELSE ajvError.instancePath,
                   ": ", ajvError.text>>]

\* what validator.validate does for one file: report Ajv errors, or throw
ValidatorOutcomes ==
    { [threw |-> FALSE, errors |-> es] : es \in SeqsUpTo(AjvErrors, MaxErrors) }
    \cup { [threw |-> TRUE, errors |-> <<>>] }

\* the files validateChannel hands to the validator: those with a schemaUrl
ValidatedFiles(chs) ==
    UNION { { <<c, k>> : k \in { j \in 1..Len(chs[c].configs) :
                                   Truthy(chs[c].configs[j].schemaUrl) } } :
            c \in 1..Len(chs) }

validateChannel(channel, c, outcome) ==
    LET perConfig(k) ==
            LET cfg == channel.configs[k]
            IN IF ~Truthy(cfg.schemaUrl) THEN <<>>
               ELSE IF outcome[<<c, k>>].threw
               THEN << [filePath |-> cfg.path, fieldPath |-> "$schema",
                        message |-> <<"Schema validation failed: ", "fetch failed">>] >>
               ELSE [n \in 1..Len(outcome[<<c, k>>].errors) |->
                        ToValidationError(cfg.path, outcome[<<c, k>>].errors[n])]
        errors == Flatten([k \in 1..Len(channel.configs) |-> perConfig(k)])
    IN [name |-> channel.name,
        valid |-> Len(errors) = 0,
        configCount |-> Len(channel.configs),
        errors |-> errors]

\* validateProject's result for the loaded channels chs
validateProject(chs, outcome) ==
    LET channelResults == [c \in 1..Len(chs) |-> validateChannel(chs[c], c, outcome)]
    IN [valid |-> \A c \in 1..Len(chs) : channelResults[c].valid,
        channels |-> channelResults]

\* if (config.schema?.skip) return { valid: true, channels: [] }
SkippedValidation == [valid |-> TRUE, channels |-> <<>>]

----
\* plan/service.ts: generatePlan

Fail(err) == /\ pc' = "failed"
             /\ error' = err

ChannelNotFound(name) ==
    [name |-> "Error", message |-> <<"Channel '", name, "' not found">>]

\* one entry of PlanValidationError.errors
ValidationEntry(channelName, e) ==
    [channel |-> channelName, message |-> e.filePath \o <<": ">> \o e.message]

\* validationResult.channels.filter((ch) => !ch.valid).flatMap(...)
PlanValidationEntries(result) ==
    Flatten([c \in 1..Len(result.channels) |->
        LET ch == result.channels[c]
        IN IF ch.valid THEN <<>>
           ELSE [n \in 1..Len(ch.errors) |-> ValidationEntry(ch.name, ch.errors[n])]])

PlanValidationError(result) ==
    [name |-> "PlanValidationError",
     message |-> <<"Validation failed. Fix errors before planning.">>,
     errors |-> PlanValidationEntries(result)]

\* a validation result that never stops the run
ValidationBlocksNever(result) == FALSE

\* if (!validationResult.valid) throw
ValidationBlocks(result) == ~result.valid

\* Step 1: validateProject, then throw PlanValidationError unless valid
Validate ==
    /\ pc = "validate"
    /\ UNCHANGED <<inputVars, callVars, channels, channelsWithSecrets, remoteChannels,
                   channelPlans, lookups, plan, applyVars, calls>>
    /\ IF config.skip
       THEN /\ validationResult' = SkippedValidation
            /\ pc' = "load"
            /\ UNCHANGED error
       ELSE LET chs == FilterChannels(files, options.channel)
            IN IF options.channel # "" /\ Len(chs) = 0
               THEN /\ Fail(ChannelNotFound(options.channel))
                    /\ UNCHANGED validationResult
               ELSE \E outcome \in [ValidatedFiles(chs) -> ValidatorOutcomes] :
                      LET result == validateProject(chs, outcome)
                      IN /\ validationResult' = result
                         /\ IF ValidationBlocks(result)
                            THEN Fail(PlanValidationError(result))
                            ELSE pc' = "load" /\ UNCHANGED error

\* Step 2: discoverChannels, options.channel filter, loadAllChannelConfigs
LoadChannels ==
    /\ pc = "load"
    /\ UNCHANGED <<inputVars, callVars, validationResult, channelsWithSecrets,
                   remoteChannels, channelPlans, lookups, plan, applyVars, calls>>
    /\ LET chs == FilterChannels(files, options.channel)
       IN IF options.channel # "" /\ Len(chs) = 0
          THEN Fail(ChannelNotFound(options.channel)) /\ UNCHANGED channels
          ELSE channels' = chs /\ pc' = "environment" /\ UNCHANGED error

\* the first config, in channel and file order, whose substitution throws
FirstMissing(chs, e) ==
    LET thrown == Flatten([c \in 1..Len(chs) |->
            SelectSeq(chs[c].configs, LAMBDA cfg : substituteSecrets(cfg.merged, e).threw)])
    IN IF thrown = <<>> THEN <<>> ELSE <<Head(thrown)>>

MissingVariablesError(cfg, e) ==
    [name |-> "Error",
     message |-> <<"Missing environment variables in ">> \o cfg.path \o <<": ">>
                 \o Join(substituteSecrets(cfg.merged, e).missingVars)]

\* [threw, error, channels]: the channels with every merged object substituted,
\* or the error of the first config with a missing variable
substituteSecretsInChannels(chs, e) ==
    LET missing == FirstMissing(chs, e)
    IN IF missing # <<>>
       THEN [threw |-> TRUE, error |-> MissingVariablesError(missing[1], e), channels |-> <<>>]
       ELSE [threw |-> FALSE, error |-> NoError,
             channels |-> [c \in 1..Len(chs) |->
                 [chs[c] EXCEPT !.configs = [j \in 1..Len(chs[c].configs) |->
                     [chs[c].configs[j] EXCEPT !.merged =
                         substituteSecrets(chs[c].configs[j].merged, e).value]]]]]

\* env['NCOCTL_API_TOKEN'] ?? config.api.token
PlanToken(e, cfg) ==
    IF "NCOCTL_API_TOKEN" \in DOMAIN e THEN Str(e["NCOCTL_API_TOKEN"]) ELSE cfg.token

TokenRequired(variable) ==
    [name |-> "Error",
     message |-> <<"API token required. Set ", variable,
                   " environment variable or api.token in config.">>]

\* Steps 3 and 4: getEnvironment, substituteSecretsInChannels, API token
LoadEnvironment ==
    /\ pc = "environment"
    /\ UNCHANGED <<inputVars, callVars, validationResult, channels, remoteChannels,
                   channelPlans, lookups, plan, applyVars, calls>>
    /\ LET substituted == substituteSecretsInChannels(channels, env)
       IN IF substituted.threw
          THEN Fail(substituted.error) /\ UNCHANGED channelsWithSecrets
          ELSE /\ channelsWithSecrets' = substituted.channels
               /\ IF ~Truthy(PlanToken(env, config))
                  THEN Fail(TokenRequired("NCOCTL_API_TOKEN"))
                  ELSE pc' = "listChannels" /\ UNCHANGED error

\* what the client throws for a failed request
Thrown(failure) ==
    [name |-> failure.kind, statusCode |-> failure.statusCode,
     message |-> <<"request failed">>]

ListChannelsFailed(failure) ==
    IF failure.kind = "ApiError"
    THEN [name |-> "Error",
          message |-> <<"Failed to list remote channels: ", "request failed">>]
    ELSE Thrown(failure)

\* Step 6, first half: client.listChannels() and the set of remote names
ListChannels ==
    /\ pc = "listChannels"
    /\ UNCHANGED <<inputVars, callVars, validationResult, channels, channelsWithSecrets,
                   channelPlans, lookups, plan, applyVars>>
    /\ \/ \E names \in SeqsUpTo(RemoteChannelNames, MaxRemoteChannels) :
            /\ calls' = Append(calls, Call("listChannels", "", "", NoFailure))
            /\ remoteChannels' = { names[i] : i \in 1..Len(names) }
            /\ pc' = "planning"
            /\ UNCHANGED error
       \/ \E failure \in RemoteFailures :
            /\ calls' = Append(calls, Call("listChannels", "", "", failure))
            /\ Fail(ListChannelsFailed(failure))
            /\ UNCHANGED remoteChannels

ListConfigsFailed(channelName, failure) ==
    [name |-> "Error",
     message |-> <<"Failed to list configs for channel '", channelName, "': ",
                   "request failed">>]

\* error instanceof ApiError && error.statusCode !== 404
Rethrown(failure) == failure.kind = "ApiError" /\ failure.statusCode # 404

\* one iteration of generatePlan's loop: generateChannelPlan for the next channel,
\* listConfigs returning one of the given listings or failing in one of the
\* given ways
GenerateChannelPlanFrom(listings, failures) ==
    /\ pc = "planning"
    /\ Len(channelPlans) < Len(channelsWithSecrets)
    /\ UNCHANGED <<inputVars, callVars, validationResult, channels, channelsWithSecrets,
                   remoteChannels, plan, applyVars>>
    /\ LET channel == channelsWithSecrets[Len(channelPlans) + 1]
           existsRemotely == channel.name \in remoteChannels
           Planned(remoteConfigs) ==
               /\ channelPlans' = Append(channelPlans,
                                         CompareConfigs(channel, existsRemotely, remoteConfigs))
               /\ lookups' = Append(lookups, remoteConfigs)
               /\ UNCHANGED <<pc, error>>
       IN IF ~existsRemotely
          THEN Planned(BuildLookup(<<>>, 0)) /\ UNCHANGED calls
          ELSE \/ \E configs \in listings :
                    /\ calls' = Append(calls, Call("listConfigs", channel.name, "", NoFailure))
                    /\ Planned(BuildLookup(configs, Len(configs)))
               \/ \E failure \in failures :
                    /\ calls' = Append(calls, Call("listConfigs", channel.name, "", failure))
                    /\ IF Rethrown(failure)
                       THEN /\ Fail(ListConfigsFailed(channel.name, failure))
                            /\ UNCHANGED <<channelPlans, lookups>>
                       ELSE Planned(BuildLookup(<<>>, 0))

\* the remote objects of a listing being drawn from remoteObjects
GenerateChannelPlan(remoteObjects) ==
    GenerateChannelPlanFrom(SeqsUpTo(remoteObjects, MaxRemoteConfigs), RemoteFailures)

\* the number of ConfigPlans with a status, over the first n ChannelPlans
RECURSIVE CountStatus(_, _, _)
CountStatus(channelPlanList, status, n) ==
    IF n = 0 THEN 0
    ELSE CountStatus(channelPlanList, status, n - 1)
         + Len(SelectSeq(channelPlanList[n].configs, LAMBDA cp : cp.status = status))

\* calculateSummary counting every remote channel as unmanaged
calculateSummaryAllRemote(channelPlanList, remoteChannelSet, localChannels) ==
    [creates |-> CountStatus(channelPlanList, "create", Len(channelPlanList)),
     updates |-> CountStatus(channelPlanList, "update", Len(channelPlanList)),
     unchanged |-> CountStatus(channelPlanList, "unchanged", Len(channelPlanList)),
     unmanaged |-> Cardinality(remoteChannelSet)]

\* calculateSummary with the 'update' case falling through to 'unchanged'
calculateSummaryFallThrough(channelPlanList, remoteChannelSet, localChannels) ==
    LET localChannelNames == { localChannels[c].name : c \in 1..Len(localChannels) }
    IN [creates |-> CountStatus(channelPlanList, "create", Len(channelPlanList)),
        updates |-> CountStatus(channelPlanList, "update", Len(channelPlanList)),
        unchanged |-> CountStatus(channelPlanList, "unchanged", Len(channelPlanList))
                      + CountStatus(channelPlanList, "update", Len(channelPlanList)),
        unmanaged |-> Cardinality(remoteChannelSet \ localChannelNames)]

calculateSummary(channelPlanList, remoteChannelSet, localChannels) ==
    LET localChannelNames == { localChannels[c].name : c \in 1..Len(localChannels) }
    IN [creates |-> CountStatus(channelPlanList, "create", Len(channelPlanList)),
        updates |-> CountStatus(channelPlanList, "update", Len(channelPlanList)),
        unchanged |-> CountStatus(channelPlanList, "unchanged", Len(channelPlanList)),
        unmanaged |-> Cardinality(remoteChannelSet \ localChannelNames)]

\* the summary step taken before the loop over the channels has ended
SummarizeEarly ==
    /\ pc = "planning"
    /\ plan' = [channels |-> channelPlans,
                summary |-> calculateSummary(channelPlans, remoteChannels, channelsWithSecrets)]
    /\ pc' = IF command = "apply" THEN "planned" ELSE "done"
    /\ UNCHANGED <<inputVars, callVars, validationResult, channels, channelsWithSecrets,
                   remoteChannels, channelPlans, lookups, error, applyVars, calls>>

\* Step 7: calculateSummary and the returned Plan
Summarize ==
    /\ pc = "planning"
    /\ Len(channelPlans) = Len(channelsWithSecrets)
    /\ plan' = [channels |-> channelPlans,
                summary |-> calculateSummary(channelPlans, remoteChannels, channelsWithSecrets)]
    /\ pc' = IF command = "apply" THEN "planned" ELSE "done"
    /\ UNCHANGED <<inputVars, callVars, validationResult, channels, channelsWithSecrets,
                   remoteChannels, channelPlans, lookups, error, applyVars, calls>>

PlanChannel == GenerateChannelPlan(RunRemoteObjects)

Next == \/ Validate
        \/ LoadChannels
        \/ LoadEnvironment
        \/ ListChannels
        \/ PlanChannel
        \/ Summarize

Spec == Init /\ [][Next]_vars

----
\* The planning of a single channel, from the state generatePlan is in after a
\* successful listChannels

ChannelProjects ==
    { <<Channel("se", cs)>> : cs \in ChannelConfigs("se", ChannelObjects) }

InitChannelPlan ==
    /\ command = "plan"
    /\ pc = "planning"
    /\ config = [token |-> Str("t"), skip |-> TRUE]
    /\ options = [channel |-> ""]
    /\ files \in ChannelProjects
    /\ env \in EnvsOver({})
    /\ validationResult = SkippedValidation
    /\ channels = files
    /\ channelsWithSecrets = substituteSecretsInChannels(files, env).channels
    /\ remoteChannels \in SUBSET {"demo", "se"}
    /\ channelPlans = <<>>
    /\ lookups = <<>>
    /\ plan = NoPlan
    /\ error = NoError
    /\ configsToApply = <<>>
    /\ configMap = [k \in {} |-> EmptyObject]
    /\ results = <<>>
    /\ applyResult = NoResult
    /\ calls = << Call("listChannels", "", "", NoFailure) >>
    /\ store = EmptyStore
    /\ NoCall

NextChannelPlan == \/ GenerateChannelPlan(ChannelRemoteObjects)
                   \/ Summarize

SpecChannelPlan == InitChannelPlan /\ [][NextChannelPlan]_vars

----
\* cli apply command and apply/service.ts

planHasChanges(p) == p.summary.creates > 0 \/ p.summary.updates > 0

\* getConfigsToApply that lists every config of the plan
getConfigsToApplyAll(p) ==
    Flatten([c \in 1..Len(p.channels) |->
        [j \in 1..Len(p.channels[c].configs) |->
            [channel |-> p.channels[c].channel,
             configName |-> p.channels[c].configs[j].name,
             status |-> p.channels[c].configs[j].status]]])

getConfigsToApply(p) ==
    Flatten([c \in 1..Len(p.channels) |->
        LET changed == SelectSeq(p.channels[c].configs,
                                 LAMBDA cp : cp.status \in {"create", "update"})
        IN [j \in 1..Len(changed) |->
               [channel |-> p.channels[c].channel,
                configName |-> changed[j].name,
                status |-> changed[j].status]]])

\* runApply after generatePlan: nothing to apply, or the confirmation prompt
\* (--yes and --json count as a confirmation)
ApplyDecide ==
    /\ pc = "planned"
    /\ UNCHANGED <<inputVars, callVars, planVars, error, applyVars, calls>>
    /\ IF ~planHasChanges(plan)
       THEN pc' = "done"
       ELSE \E confirmed \in BOOLEAN :
              pc' = IF confirmed THEN "apply" ELSE "cancelled"

\* env['NCO_API_TOKEN'] ?? config.api.token
ApplyToken(e, cfg) ==
    IF "NCO_API_TOKEN" \in DOMAIN e THEN Str(e["NCO_API_TOKEN"]) ELSE cfg.token

\* `${channel.name}/${config.name}`
MapKey(channelName, configName) == <<channelName, "/", configName>>

RECURSIVE buildConfigMapFrom(_, _)
buildConfigMapFrom(entries, n) ==
    IF n = 0 THEN [k \in {} |-> EmptyObject]
    ELSE LET before == buildConfigMapFrom(entries, n - 1)
         IN [k \in DOMAIN before \cup {entries[n][1]} |->
                IF k = entries[n][1] THEN entries[n][2] ELSE before[k]]

buildConfigMap(chs) ==
    LET entries == Flatten([c \in 1..Len(chs) |->
            [j \in 1..Len(chs[c].configs) |->
                <<MapKey(chs[c].name, chs[c].configs[j].name), chs[c].configs[j].merged>>]])
    IN buildConfigMapFrom(entries, Len(entries))

EarlyResult(p) ==
    [success |-> TRUE, results |-> <<>>,
     summary |-> [succeeded |-> 0, failed |-> 0, skipped |-> p.summary.unchanged]]

\* applyConfigs up to its loop: configs to apply, token, files loaded again
\* and substituted, config map
ApplyPrepare ==
    /\ pc = "apply"
    /\ UNCHANGED <<inputVars, callVars, planVars, results, calls>>
    /\ LET toApply == getConfigsToApply(plan)
           substituted == substituteSecretsInChannels(
                              FilterChannels(files, options.channel), env)
       IN /\ configsToApply' = toApply
          /\ IF Len(toApply) = 0
             THEN /\ applyResult' = EarlyResult(plan)
                  /\ pc' = "done"
                  /\ UNCHANGED <<error, configMap>>
             ELSE IF ~Truthy(ApplyToken(env, config))
             THEN /\ Fail(TokenRequired("NCO_API_TOKEN"))
                  /\ UNCHANGED <<applyResult, configMap>>
             ELSE IF substituted.threw
             THEN /\ Fail(substituted.error)
                  /\ UNCHANGED <<applyResult, configMap>>
             ELSE /\ configMap' = buildConfigMap(substituted.channels)
                  /\ pc' = "putting"
                  /\ UNCHANGED <<error, applyResult>>

StatusText(n) == CASE n = 404 -> "404" [] n = 500 -> "500" [] OTHER -> "0"

PutErrorMessage(failure) ==
    IF failure.kind = "ApiError"
    THEN <<"API error (", StatusText(failure.statusCode), "): ", "request failed">>
    ELSE <<"request failed">>

ConfigApplyResult(toApply, success, message) ==
    [channel |-> toApply.channel, config |-> toApply.configName,
     success |-> success, error |-> message]

\* a putConfig request, the object it sent and how it ended
PutCall(toApply, body, failure) ==
    [op |-> "putConfig", channel |-> toApply.channel, config |-> toApply.configName,
     failure |-> failure, body |-> body]

\* one iteration of applyConfigs' loop, the request failing in one of the
\* given ways or succeeding
PutConfigWith(failures) ==
    /\ pc = "putting"
    /\ Len(results) < Len(configsToApply)
    /\ UNCHANGED <<command, config, options, files, env, callVars, planVars, pc, error,
                   configsToApply, configMap, applyResult>>
    /\ LET toApply == configsToApply[Len(results) + 1]
           configKey == MapKey(toApply.channel, toApply.configName)
       IN IF configKey \notin DOMAIN configMap
          THEN /\ results' = Append(results, ConfigApplyResult(toApply, FALSE,
                                        <<"Configuration content not found">>))
               /\ UNCHANGED <<calls, store>>
          ELSE \/ /\ calls' = Append(calls, PutCall(toApply, configMap[configKey], NoFailure))
                  /\ store' = StorePut(store, toApply.channel, toApply.configName,
                                       configMap[configKey])
                  /\ results' = Append(results, ConfigApplyResult(toApply, TRUE, <<>>))
               \/ \E failure \in failures :
                    /\ calls' = Append(calls, PutCall(toApply, configMap[configKey], failure))
                    /\ UNCHANGED store
                    /\ results' = Append(results, ConfigApplyResult(toApply, FALSE,
                                             PutErrorMessage(failure)))

PutConfig == PutConfigWith(RemoteFailures)

\* a count of successes that takes every result for one
SucceededAll(rs) == Len(rs)

Succeeded(rs) == Len(SelectSeq(rs, LAMBDA r : r.success))

\* the ApplyResult returned after the loop
ApplyFinish ==
    /\ pc = "putting"
    /\ Len(results) = Len(configsToApply)
    /\ applyResult' = [success |-> Succeeded(results) = Len(results),
                       results |-> results,
                       summary |-> [succeeded |-> Succeeded(results),
                                    failed |-> Len(results) - Succeeded(results),
                                    skipped |-> plan.summary.unchanged]]
    /\ pc' = "done"
    /\ UNCHANGED <<inputVars, callVars, planVars, error, configsToApply, configMap, results, calls>>

NextApply == \/ Next
             \/ ApplyDecide
             \/ ApplyPrepare
             \/ PutConfig
             \/ ApplyFinish

SpecApply == InitApply /\ [][NextApply]_vars

----
\* Properties

\* the local channels a run plans: the channel directories, restricted to
\* options.channel when it is given
PlannedChannels == FilterChannels(files, options.channel)

\* the index pairs of the ConfigPlans computed so far
PlannedConfigs ==
    { <<i, j>> \in (1..Len(channelPlans)) \X (1..MaxConfigs + 1) :
        j <= Len(channelPlans[i].configs) }

LocalOf(ij) == channelsWithSecrets[ij[1]].configs[ij[2]]

ConfigPlanOf(ij) == channelPlans[ij[1]].configs[ij[2]]

\* the key a config is looked up by, written out
KeyOf(ij) == IF LocalOf(ij).id.t = "str" THEN LocalOf(ij).id ELSE Str(LocalOf(ij).name)

\* the last remote call made for the channel plan i ended with 'not found'
ListingNotFound(i) ==
    /\ i = Len(channelPlans)
    /\ calls[Len(calls)] = Call("listConfigs", channelPlans[i].channel, "",
                                [kind |-> "ApiError", statusCode |-> 404])

\* C1: every planned local config whose key is not in the channel's remote lookup
\* (the lookup being empty when the channel does not exist remotely or its listing
\* ended with 404) has status 'create' and the diffs of its merged object against
\* {}; every one whose key is in the lookup has the diffs of its merged object
\* against the object found, with status 'unchanged' when they are empty and
\* 'update' otherwise.
C1_Classification ==
    /\ \A i \in 1..Len(channelPlans) :
          (~channelPlans[i].existsRemotely \/ ListingNotFound(i))
              => DOMAIN lookups[i] = {}
    /\ \A ij \in PlannedConfigs :
          IF KeyOf(ij) \notin DOMAIN lookups[ij[1]]
          THEN /\ ConfigPlanOf(ij).status = "create"
               /\ ConfigPlanOf(ij).diffs = diffConfigs(LocalOf(ij).merged, EmptyObject)
          ELSE LET expected == diffConfigs(LocalOf(ij).merged, lookups[ij[1]][KeyOf(ij)])
               IN /\ ConfigPlanOf(ij).diffs = expected
                  /\ ConfigPlanOf(ij).status =
                        IF expected = <<>> THEN "unchanged" ELSE "update"

\* a config found in the lookup and planned as an update
C1_Witness ==
    \E ij \in PlannedConfigs :
        /\ KeyOf(ij) \in DOMAIN lookups[ij[1]]
        /\ ConfigPlanOf(ij).status = "update"
        /\ ConfigPlanOf(ij).diffs # <<>>

\* the ConfigPlans of a returned Plan
ReturnedConfigPlans ==
    IF plan = NoPlan THEN {}
    ELSE UNION { { plan.channels[i].configs[j] : j \in 1..Len(plan.channels[i].configs) } :
                 i \in 1..Len(plan.channels) }

ContentKeys(merged) == { merged.v[k][1] : k \in 1..Len(merged.v) } \ {"$schema"}

CallsMade == { calls[k] : k \in 1..Len(calls) }

NotFound == [kind |-> "ApiError", statusCode |-> 404]

\* C3 as stated: a listConfigs failure with status 404 lets the run continue with
\* an empty lookup; after any other failure of listChannels or listConfigs the run
\* has failed and returns no Plan.
C3_OtherFailuresAbort ==
    \A call \in CallsMade :
        (/\ call.op \in {"listChannels", "listConfigs"}
         /\ call.failure # NoFailure
         /\ ~(call.op = "listConfigs" /\ call.failure = NotFound))
            => pc = "failed" /\ plan = NoPlan

WithStatus(status) ==
    { ij \in PlannedConfigs : ConfigPlanOf(ij).status = status }

\* C5: in a returned Plan creates, updates and unchanged are the numbers of
\* ConfigPlans with that status over all ChannelPlans, and they add up to the
\* number of ConfigPlans.
C5_Counts ==
    plan # NoPlan =>
      /\ plan.channels = channelPlans
      /\ plan.summary.creates = Cardinality(WithStatus("create"))
      /\ plan.summary.updates = Cardinality(WithStatus("update"))
      /\ plan.summary.unchanged = Cardinality(WithStatus("unchanged"))
      /\ plan.summary.creates + plan.summary.updates + plan.summary.unchanged
           = Cardinality(PlannedConfigs)

\* a returned Plan of two channels with a create and an update
C5_Witness ==
    /\ plan # NoPlan
    /\ Len(plan.channels) = 2
    /\ plan.summary.creates = 1
    /\ plan.summary.updates = 1

\* the placeholder variables of a config that have no value in the environment
Unbound(cfg) ==
    LET names == findPlaceholders(cfg.merged)
    IN { names[k] : k \in 1..Len(names) } \ DOMAIN env

\* the configs of the planned local channels, in channel and file order
PlannedFiles == Flatten([c \in 1..Len(PlannedChannels) |-> PlannedChannels[c].configs])

UnboundFiles == SelectSeq(PlannedFiles, LAMBDA cfg : Unbound(cfg) # {})

\* the error message has the text v as one of its parts
Mentions(err, v) == \E k \in 1..Len(err.message) : err.message[k] = v

BeforeRemoteCalls ==
    /\ calls = <<>>
    /\ channelPlans = <<>>
    /\ plan = NoPlan
    /\ pc \in {"validate", "load", "environment", "failed"}

C7_ValidationGate ==
    /\ (validationResult # NoValidation /\ ~validationResult.valid) =>
          /\ pc = "failed"
          /\ error.name = "PlanValidationError"
          /\ calls = <<>>
          /\ plan = NoPlan
    /\ \A call \in CallsMade :
          call.op = "putConfig" =>
             /\ validationResult # NoValidation
             /\ validationResult.valid
             /\ plan # NoPlan
             /\ plan.channels = channelPlans
             /\ Len(plan.channels) = Len(PlannedChannels)

\* an apply run that validated a file and made a putConfig call
C7_Witness ==
    /\ \E call \in CallsMade : call.op = "putConfig"
    /\ validationResult # NoValidation
    /\ Len(validationResult.channels) > 0
    /\ ValidatedFiles(PlannedChannels) # {}

\* the validation errors of the invalid channels, in order
OriginatingErrors ==
    IF validationResult = NoValidation THEN <<>>
    ELSE Flatten([c \in 1..Len(validationResult.channels) |->
            IF validationResult.channels[c].valid THEN <<>>
            ELSE validationResult.channels[c].errors])

Carries(entry, field, value) == field \in DOMAIN entry /\ entry[field] = value

\* C8 as stated: a PlanValidationError has one entry per validation error of
\* each invalid channel, each carrying that error's file path, field path and
\* message unchanged.
C8_EntriesVerbatim ==
    error.name = "PlanValidationError" =>
      /\ Len(error.errors) = Len(OriginatingErrors)
      /\ \A k \in 1..Len(error.errors) :
            /\ Carries(error.errors[k], "filePath", OriginatingErrors[k].filePath)
            /\ Carries(error.errors[k], "fieldPath", OriginatingErrors[k].fieldPath)
            /\ Carries(error.errors[k], "message", OriginatingErrors[k].message)

\* C9: a local config is looked up by its id when its merged object has one and
\* by its file name otherwise: it is planned against the remote object listed
\* with that id, whatever other objects are listed, and as a 'create' when no
\* object with that id is listed.
C9_MatchKey ==
    \A ij \in PlannedConfigs :
       LET merged == LocalOf(ij).merged
           key == IF Has(merged, "id") THEN Get(merged, "id") ELSE Str(LocalOf(ij).name)
           listed == lookups[ij[1]]
       IN IF key \in DOMAIN listed
          THEN /\ Get(listed[key], "id") = key
               /\ ConfigPlanOf(ij).status # "create"
               /\ ConfigPlanOf(ij).diffs = diffConfigs(merged, listed[key])
          ELSE ConfigPlanOf(ij).status = "create"

\* a config with id x in the file n, planned against the remote x while a remote
\* n is listed too
C9_Witness ==
    \E ij \in PlannedConfigs :
       /\ LocalOf(ij).name = "n"
       /\ Get(LocalOf(ij).merged, "id") = Str("x")
       /\ {Str("n"), Str("x")} \subseteq DOMAIN lookups[ij[1]]
       /\ ConfigPlanOf(ij).diffs = diffConfigs(LocalOf(ij).merged, lookups[ij[1]][Str("x")])
       /\ ConfigPlanOf(ij).diffs # diffConfigs(LocalOf(ij).merged, lookups[ij[1]][Str("n")])

LocalAB == Obj(<< <<"a", Num("1")>>, <<"b", Num("2")>> >>)

RemoteAB(key, b) == Obj(<< <<"id", key>>, <<"a", Num("1")>>, <<"b", Num(b)>> >>)

\* C10 as stated: the local object {a:1,b:2} matched with the remote object
\* {id,a:1,b:2} is 'unchanged' with no diffs, and matched with {id,a:1,b:3} it is
\* an 'update' with the single diff 'change' at /b from 3 to 2.
C10_IdOnlyDifference ==
    \A ij \in PlannedConfigs :
       (LocalOf(ij).merged = LocalAB /\ KeyOf(ij) \in DOMAIN lookups[ij[1]]) =>
          LET remote == lookups[ij[1]][KeyOf(ij)]
          IN /\ remote = RemoteAB(KeyOf(ij), "2") =>
                  /\ ConfigPlanOf(ij).status = "unchanged"
                  /\ ConfigPlanOf(ij).diffs = <<>>
             /\ remote = RemoteAB(KeyOf(ij), "3") =>
                  /\ ConfigPlanOf(ij).status = "update"
                  /\ ConfigPlanOf(ij).diffs =
                       << [path |-> <<"/", "b">>, type |-> "change",
                           oldValue |-> Num("3"), newValue |-> Num("2")] >>

----
\* Library functions called on their own: no run of a command is in progress

Idle ==
    /\ command = "none"
    /\ pc = "idle"
    /\ config = [token |-> Undefined, skip |-> FALSE]
    /\ options = [channel |-> ""]
    /\ files = <<>>
    /\ env \in EnvsOver({})
    /\ validationResult = NoValidation
    /\ channels = <<>>
    /\ channelsWithSecrets = <<>>
    /\ remoteChannels = {}
    /\ channelPlans = <<>>
    /\ lookups = <<>>
    /\ plan = NoPlan
    /\ error = NoError
    /\ configsToApply = <<>>
    /\ configMap = [k \in {} |-> EmptyObject]
    /\ results = <<>>
    /\ applyResult = NoResult
    /\ calls = <<>>
    /\ store = EmptyStore

----
\* merge/deep-merge.ts: deepMerge
\*
\* An object or array that belongs to an argument carries a field ref naming the
\* argument; an object or array the function creates carries none. Returning a
\* value as it is keeps its ref, cloning it drops it.

Function(name) == [t |-> "function", v |-> name]

\* properties every object inherits from Object.prototype
ObjectPrototype == {"constructor", "hasOwnProperty", "toString", "valueOf"}

\* typeof x
JsTypeOf(x) == CASE x.t = "num" -> "number"
                 [] x.t = "str" -> "string"
                 [] x.t = "undefined" -> "undefined"
                 [] x.t = "function" -> "function"
                 [] OTHER -> "object"

\* key in o
In(key, o) == Has(o, key) \/ key \in ObjectPrototype

\* o[key]
Member(o, key) == IF Has(o, key) THEN Get(o, key)
                  ELSE IF key \in ObjectPrototype THEN Function(key)
                  ELSE Undefined

RECURSIVE cloneValue(_)
cloneValue(value) ==
    IF value.t = "arr"
    THEN Arr([i \in 1..Len(value.v) |-> cloneValue(value.v[i])])
    ELSE IF value.t = "obj"
    THEN Obj([i \in 1..Len(value.v) |-> <<value.v[i][1], cloneValue(value.v[i][2])>>])
    ELSE value

RECURSIVE deepMerge(_, _)
RECURSIVE mergeValues(_, _)
RECURSIVE mergeBaseKeys(_, _, _)
RECURSIVE mergeOverlayKeys(_, _, _)

\* the entries of result after the first loop has handled n keys of base
mergeBaseKeys(base, overlay, n) ==
    IF n = 0 THEN <<>>
    ELSE LET before == mergeBaseKeys(base, overlay, n - 1)
             key == base.v[n][1]
             baseValue == base.v[n][2]
             overlayValue == Member(overlay, key)
         IN IF overlayValue.t = "null" THEN before
            ELSE IF ~In(key, overlay)
            THEN Append(before, <<key, cloneValue(baseValue)>>)
            ELSE Append(before, <<key, mergeValues(baseValue, overlayValue)>>)

RECURSIVE mergeOverlayKeysKeepNull(_, _, _)
\* the second loop without its test for null
mergeOverlayKeysKeepNull(result, overlay, n) ==
    IF n = 0 THEN result
    ELSE LET before == mergeOverlayKeysKeepNull(result, overlay, n - 1)
             key == overlay.v[n][1]
         IN IF In(key, Obj(before)) THEN before
            ELSE Append(before, <<key, cloneValue(overlay.v[n][2])>>)

\* the entries of result after the second loop has handled n keys of overlay
mergeOverlayKeys(result, overlay, n) ==
    IF n = 0 THEN result
    ELSE LET before == mergeOverlayKeys(result, overlay, n - 1)
             key == overlay.v[n][1]
         IN IF In(key, Obj(before)) THEN before
            ELSE IF overlay.v[n][2].t = "null" THEN before
            ELSE Append(before, <<key, cloneValue(overlay.v[n][2])>>)

deepMerge(base, overlay) ==
    Obj(mergeOverlayKeys(mergeBaseKeys(base, overlay, Len(base.v)),
                         overlay, Len(overlay.v)))

mergeValues(base, overlay) ==
    IF JsTypeOf(base) # JsTypeOf(overlay) THEN cloneValue(overlay)
    ELSE IF base.t = "arr" \/ overlay.t = "arr" THEN cloneValue(overlay)
    ELSE IF base.t = "obj" /\ overlay.t = "obj" THEN deepMerge(base, overlay)
    ELSE overlay

RECURSIVE Owned(_, _)
\* a value all of whose objects and arrays belong to the argument owner
Owned(value, owner) ==
    IF value.t = "arr"
    THEN [t |-> "arr", v |-> [i \in 1..Len(value.v) |-> Owned(value.v[i], owner)],
          ref |-> owner]
    ELSE IF value.t = "obj"
    THEN [t |-> "obj",
          v |-> [i \in 1..Len(value.v) |-> <<value.v[i][1], Owned(value.v[i][2], owner)>>],
          ref |-> owner]
    ELSE value

\* values of the key a of a merged object
MergeValuesA ==
    { Num("1"), Num("2"), Str("s"), Null,
      Arr(<<>>), Arr(<<Num("1")>>), Arr(<<Obj(<<<<"b", Num("1")>>>>)>>),
      EmptyObject,
      Obj(<<<<"b", Num("1")>>>>),
      Obj(<<<<"b", Null>>>>),
      Obj(<<<<"c", Num("2")>>>>),
      Obj(<< <<"b", Num("1")>>, <<"c", Num("2")>> >>) }

\* objects with the keys a, b and toString, each optional
MergeObjects ==
    { Obj(a \o b \o s) :
        <<a, b, s>> \in ({<<>>} \cup { <<<<"a", x>>>> : x \in MergeValuesA })
                        \X ({<<>>} \cup { <<<<"b", x>>>> : x \in {Num("2"), Null} })
                        \X {<<>>, <<<<"toString", Num("1")>>>>} }

InitMerge ==
    /\ Idle
    /\ \E base \in MergeObjects, overlay \in MergeObjects :
          args = [base |-> Owned(base, "base"), overlay |-> Owned(overlay, "overlay")]
    /\ returned = <<>>

\* a call deepMerge(args.base, args.overlay)
DeepMerge ==
    /\ args # NoArgs
    /\ returned = <<>>
    /\ returned' = <<deepMerge(args.base, args.overlay)>>
    /\ UNCHANGED <<args, runVars>>

SpecMerge == InitMerge /\ [][DeepMerge]_vars

----
\* Properties of deepMerge

RECURSIVE Plain(_)
\* a value without the ref fields: its structure alone
Plain(value) ==
    IF value.t = "arr" THEN Arr([i \in 1..Len(value.v) |-> Plain(value.v[i])])
    ELSE IF value.t = "obj"
    THEN Obj([i \in 1..Len(value.v) |-> <<value.v[i][1], Plain(value.v[i][2])>>])
    ELSE value

RECURSIVE Refs(_)
\* the arguments that objects and arrays of a value belong to
Refs(value) ==
    IF value.t \in {"arr", "obj"}
    THEN (IF "ref" \in DOMAIN value THEN {value.ref} ELSE {})
         \cup UNION { Refs(IF value.t = "arr" THEN value.v[i] ELSE value.v[i][2]) :
                      i \in 1..Len(value.v) }
    ELSE {}

KeySet(o) == { o.v[i][1] : i \in 1..Len(o.v) }

RECURSIVE NullsAbsent(_, _, _)
\* no key that overlay sets to null is in result, here and wherever two
\* objects are merged below
NullsAbsent(base, overlay, result) ==
    /\ \A key \in KeySet(overlay) : Get(overlay, key).t = "null" => ~Has(result, key)
    /\ \A key \in KeySet(base) \cap KeySet(overlay) :
          (Get(base, key).t = "obj" /\ Get(overlay, key).t = "obj") =>
              /\ Has(result, key)
              /\ NullsAbsent(Get(base, key), Get(overlay, key), Get(result, key))

Merged(base, overlay) ==
    /\ returned # <<>>
    /\ Plain(args.base) = base
    /\ Plain(args.overlay) = overlay

\* C11: a key whose overlay value is null is absent from the result of
\* deepMerge, whether or not base has the key, at every level at which two
\* objects are merged; merge({a:1,b:2},{a:null}) = {b:2} and
\* merge({a:{b:1,c:2}},{a:{b:null}}) = {a:{c:2}}.
C11_NullRemoves ==
    returned # <<>> =>
      /\ NullsAbsent(args.base, args.overlay, returned[1])
      /\ Merged(Obj(<< <<"a", Num("1")>>, <<"b", Num("2")>> >>), Obj(<<<<"a", Null>>>>))
           => returned[1] = Obj(<<<<"b", Num("2")>>>>)
      /\ Merged(Obj(<<<<"a", Obj(<< <<"b", Num("1")>>, <<"c", Num("2")>> >>)>>>>),
                Obj(<<<<"a", Obj(<<<<"b", Null>>>>)>>>>))
           => returned[1] = Obj(<<<<"a", Obj(<<<<"c", Num("2")>>>>)>>>>)

\* the nested removal and the removal of a key base does not have
C11_Witness ==
    /\ returned # <<>>
    /\ Get(args.base, "a").t = "obj"
    /\ Get(args.overlay, "a").t = "obj"
    /\ Get(Get(args.base, "a"), "b") = Num("1")
    /\ Get(Get(args.overlay, "a"), "b") = Null
    /\ ~Has(args.base, "b")
    /\ Get(args.overlay, "b") = Null
    /\ Has(returned[1], "a")
    /\ ~Has(Get(returned[1], "a"), "b")
    /\ ~Has(returned[1], "b")

\* C12 as stated: every key of the result has the base value when overlay
\* lacks the key, the overlay value when only overlay has it, when the typeof
\* of the two values differ or when either is an array, the recursive merge
\* when both are objects, and the overlay value otherwise.
C12_Precedence ==
    returned # <<>> =>
      \A key \in KeySet(returned[1]) :
         LET baseValue == Get(args.base, key)
             overlayValue == Get(args.overlay, key)
             value == Get(returned[1], key)
         IN IF ~Has(args.overlay, key)
            THEN Has(args.base, key) /\ value = Plain(baseValue)
            ELSE IF ~Has(args.base, key)
            THEN overlayValue.t # "null" /\ value = Plain(overlayValue)
            ELSE IF JsTypeOf(baseValue) # JsTypeOf(overlayValue)
            THEN value = Plain(overlayValue)
            ELSE IF baseValue.t = "arr" \/ overlayValue.t = "arr"
            THEN value = Plain(overlayValue)
            ELSE IF baseValue.t = "obj" /\ overlayValue.t = "obj"
            THEN value = Plain(deepMerge(baseValue, overlayValue))
            ELSE Plain(value) = Plain(overlayValue)

\* C13 as stated: no object or array of the result of deepMerge is an object
\* or array of base or of overlay.
C13_NothingShared ==
    returned # <<>> => Refs(returned[1]) = {}

\* the overlay object removes every child of the base object with null
Emptied(baseValue, overlayValue) ==
    /\ baseValue.t = "obj"
    /\ overlayValue.t = "obj"
    /\ KeySet(baseValue) # {}
    /\ KeySet(baseValue) \subseteq KeySet(overlayValue)
    /\ \A key \in KeySet(overlayValue) : Get(overlayValue, key).t = "null"

\* C14 as stated: a nested object all of whose children the overlay removes
\* with null is itself removed from the result.
C14_EmptiedObjectRemoved ==
    returned # <<>> =>
      \A key \in KeySet(args.base) \cap KeySet(args.overlay) :
         Emptied(Get(args.base, key), Get(args.overlay, key))
            => ~Has(returned[1], key)

----
\* merge/hierarchy.ts and config/loader.ts: one file of a channel directory

\* shouldInherit that does not ask for an id
shouldInheritAlways(channelConfig) == TRUE

\* 'id' in channelConfig && channelConfig.id !== undefined
shouldInherit(channelConfig) ==
    In("id", channelConfig) /\ Member(channelConfig, "id").t # "undefined"

mergeConfigs(rootConfig, channelConfig) == deepMerge(rootConfig, channelConfig)

\* a === b
StrictEquals(a, b) == a.t \notin {"arr", "obj"} /\ a = b

NoFile == [none |-> TRUE]

\* the body of loadChannelConfigs' loop for the file configName of a channel:
\* raw is the parsed channel file, rootFile the parsed root file of the same
\* name or NoFile; filesRead lists the files loadYamlFile was called for
loadConfig(channelName, configName, raw, rootFile) ==
    LET rootConfigPath == rootFile # NoFile
        rootSchema == Member(rootFile, "$schema")
        channelSchema == Member(raw, "$schema")
        inherits == /\ rootConfigPath
                    /\ shouldInherit(raw)
                    /\ \/ ~Truthy(rootSchema)
                       \/ ~Truthy(channelSchema)
                       \/ StrictEquals(rootSchema, channelSchema)
        merged == IF inherits THEN mergeConfigs(rootFile, raw) ELSE raw
    IN [config |-> LoadedConfig(channelName, configName, merged),
        raw |-> raw,
        inheritsFromRoot |-> inherits,
        filesRead |-> IF rootConfigPath /\ shouldInherit(raw)
                      THEN <<"channel", "root">> ELSE <<"channel">>]

\* parsed channel files: $schema, id and a, each optional
LoadRaws ==
    { Obj(sc \o i \o a) :
        <<sc, i, a>> \in ({<<>>} \cup { <<<<"$schema", Str(x)>>>> : x \in {"s", "t", ""} })
                         \X ({<<>>} \cup { <<<<"id", x>>>> : x \in {Str("x"), Null} })
                         \X ({<<>>} \cup { <<<<"a", x>>>> : x \in {Num("1"), Null} }) }

\* parsed root files: $schema, a and c, each optional
LoadRoots ==
    { Obj(sc \o a \o c) :
        <<sc, a, c>> \in ({<<>>} \cup { <<<<"$schema", Str(x)>>>> : x \in {"s", "t", ""} })
                         \X ({<<>>} \cup { <<<<"a", x>>>> : x \in {Num("1"), Num("2")} })
                         \X {<<>>, <<<<"c", Num("3")>>>>} }

InitLoad ==
    /\ Idle
    /\ args \in [raw : LoadRaws, rootFile : LoadRoots \cup {NoFile}]
    /\ returned = <<>>

\* loading the file se/x.yaml
LoadConfig ==
    /\ args # NoArgs
    /\ returned = <<>>
    /\ returned' = <<loadConfig("se", "x", args.raw, args.rootFile)>>
    /\ UNCHANGED <<args, runVars>>

SpecLoad == InitLoad /\ [][LoadConfig]_vars

\* the object has a $schema that is a non-empty string
HasSchema(o) == Has(o, "$schema") /\ Get(o, "$schema").t = "str" /\ Get(o, "$schema").v # ""

\* C15: the loader's merged object is deepMerge(root, raw) with inheritsFromRoot
\* true exactly when a root file of the same name exists, raw has a key id with
\* a value, and root or raw lacks a non-empty $schema or both $schema are equal;
\* otherwise merged is raw and inheritsFromRoot is false. The root file is read
\* only when the first two conditions hold.
C15_Inheritance ==
    returned # <<>> =>
      LET raw == args.raw
          root == args.rootFile
          opted == root # NoFile /\ Has(raw, "id")
          inherit == /\ opted
                     /\ \/ ~HasSchema(root)
                        \/ ~HasSchema(raw)
                        \/ Get(root, "$schema") = Get(raw, "$schema")
      IN /\ returned[1].inheritsFromRoot = inherit
         /\ returned[1].raw = raw
         /\ returned[1].config.merged = IF inherit THEN deepMerge(root, raw) ELSE raw
         /\ returned[1].config.schemaUrl = Get(returned[1].config.merged, "$schema")
         /\ returned[1].config.id = Get(returned[1].config.merged, "id")
         /\ ("root" \in { returned[1].filesRead[k] : k \in 1..Len(returned[1].filesRead) })
               <=> opted

\* a file that inherits the root's a and c under equal $schema values
C15_Witness ==
    /\ returned # <<>>
    /\ returned[1].inheritsFromRoot
    /\ HasSchema(args.raw)
    /\ HasSchema(args.rootFile)
    /\ returned[1].config.merged # args.raw
    /\ Has(returned[1].config.merged, "c")

----
\* diff/differ.ts called on two configuration objects

\* values of the key a
DiffValuesA ==
    { Num("1"), Num("2"), Null, Str("1"),
      Arr(<<Num("1")>>), Arr(<<Num("1"), Num("2")>>), Arr(<<Num("2")>>),
      Arr(<<Obj(<<<<"b", Num("1")>>>>)>>),
      EmptyObject, Obj(<<<<"b", Num("1")>>>>),
      Obj(<<<<"$schema", Str("s")>>>>), Obj(<<<<"$schema", Str("t")>>>>),
      Obj(<<<<"$schema", Str("s")>>, <<"b", Num("1")>>>>) }

\* values of the top-level key $schema
DiffSchemas ==
    { Str("s"), Str("t"), Obj(<<<<"x", Num("1")>>>>), Obj(<<<<"x", Num("2")>>>>) }

\* configuration objects over the keys $schema, a and b, each optional
DiffObjects ==
    { Obj(sc \o a \o b) :
        <<sc, a, b>> \in ({<<>>} \cup { <<<<"$schema", x>>>> : x \in DiffSchemas })
                         \X ({<<>>} \cup { <<<<"a", x>>>> : x \in DiffValuesA })
                         \X {<<>>, <<<<"b", Num("1")>>>>} }

InitDiff ==
    /\ Idle
    /\ args \in [local : DiffObjects, remote : DiffObjects]
    /\ returned = <<>>

DiffConfigs ==
    /\ args # NoArgs
    /\ returned = <<>>
    /\ returned' = <<[op |-> "diffConfigs", value |-> diffConfigs(args.local, args.remote)]>>
    /\ UNCHANGED <<args, runVars>>

ConfigsEqual ==
    /\ args # NoArgs
    /\ returned = <<>>
    /\ returned' = <<[op |-> "configsEqual", value |-> configsEqual(args.local, args.remote)]>>
    /\ UNCHANGED <<args, runVars>>

NextDiff == DiffConfigs \/ ConfigsEqual

SpecDiff == InitDiff /\ [][NextDiff]_vars

\* the FieldDiff records a call of diffConfigs returned
Diffs == IF returned # <<>> /\ returned[1].op = "diffConfigs"
         THEN { returned[1].value[k] : k \in 1..Len(returned[1].value) }
         ELSE {}

\* the segments of a rendered path: "/a/0" has the segments a and 0
Segments(path) == [k \in 1..(Len(path) \div 2) |-> path[2 * k]]

IsIndex(seg, array) == \E i \in 0..(Len(array.v) - 1) : IndexText(i) = seg

RECURSIVE Resolve(_, _)
\* the value of the field at the segments below value, Undefined when there
\* is no such field
Resolve(value, segs) ==
    IF segs = <<>> THEN value
    ELSE IF value.t = "obj" /\ Has(value, Head(segs))
    THEN Resolve(Get(value, Head(segs)), Tail(segs))
    ELSE IF value.t = "arr" /\ IsIndex(Head(segs), value)
    THEN Resolve(value.v[1 + CHOOSE i \in 0..(Len(value.v) - 1) : IndexText(i) = Head(segs)],
                 Tail(segs))
    ELSE Undefined

\* C16: every FieldDiff of diffConfigs(local, remote) is an add with newValue
\* the local value and no oldValue for a field only local has, a remove with
\* oldValue the remote value and no newValue for a field only remote has, or
\* a change with oldValue the remote and newValue the local value for a field
\* both have with different values
C16_Shapes ==
    \A d \in Diffs :
      LET inLocal == Resolve(args.local, Segments(d.path))
          inRemote == Resolve(args.remote, Segments(d.path))
      IN \/ /\ d.type = "add"
            /\ DOMAIN d = {"path", "type", "newValue"}
            /\ inLocal # Undefined /\ inRemote = Undefined
            /\ d.newValue = inLocal
         \/ /\ d.type = "remove"
            /\ DOMAIN d = {"path", "type", "oldValue"}
            /\ inLocal = Undefined /\ inRemote # Undefined
            /\ d.oldValue = inRemote
         \/ /\ d.type = "change"
            /\ DOMAIN d = {"path", "type", "oldValue", "newValue"}
            /\ inLocal # Undefined /\ inRemote # Undefined
            /\ d.oldValue = inRemote /\ d.newValue = inLocal
            /\ inLocal # inRemote

\* one call returns an add, a remove and a change
C16_Witness ==
    /\ \E d \in Diffs : d.type = "add"
    /\ \E d \in Diffs : d.type = "remove"
    /\ \E d \in Diffs : d.type = "change"

\* the object without its key k
Without(o, k) == Obj(SelectSeq(o.v, LAMBDA pair : pair[1] # k))

\* the two arguments differ in their top-level $schema and in nothing else
OnlySchemaDiffers ==
    /\ args # NoArgs
    /\ args.local # args.remote
    /\ Without(args.local, "$schema") = Without(args.remote, "$schema")

\* both arguments have an object under a, with different values of its $schema
NestedSchemaDiffers ==
    /\ Get(args.local, "a").t = "obj"
    /\ Get(args.remote, "a").t = "obj"
    /\ Get(Get(args.local, "a"), "$schema") # Get(Get(args.remote, "a"), "$schema")

\* C17: diffConfigs returns no diff at or below the top-level key $schema;
\* for arguments that differ only in their top-level $schema diffConfigs is
\* empty and configsEqual is true; a different $schema below the key a is
\* reported at /a/$schema
C17_SchemaIgnored ==
    /\ \A d \in Diffs : Segments(d.path)[1] # "$schema"
    /\ (returned # <<>> /\ OnlySchemaDiffers) =>
          returned[1].value = (IF returned[1].op = "diffConfigs" THEN <<>> ELSE TRUE)
    /\ (returned # <<>> /\ returned[1].op = "diffConfigs" /\ NestedSchemaDiffers) =>
          \E d \in Diffs : d.path = <<"/", "a", "/", "$schema">>
    /\ (returned # <<>> /\ returned[1].op = "configsEqual" /\ NestedSchemaDiffers) =>
          returned[1].value = FALSE

\* configsEqual answered for two objects whose structured $schema values
\* differ inside
C17_Witness ==
    /\ returned # <<>>
    /\ returned[1].op = "configsEqual"
    /\ OnlySchemaDiffers
    /\ Get(args.local, "$schema").t = "obj"
    /\ Get(args.remote, "$schema").t = "obj"
    /\ Has(args.local, "a")

----
\* merge/deep-merge.ts: compareChannels

\* compareConfig that reports a configuration of one channel as only_in_a
\* whichever channel has it
compareConfigAlwaysA(name, configA, configB) ==
    IF ~Truthy(configA) \/ ~Truthy(configB)
    THEN [name |-> name, status |-> "only_in_a", diffs |-> <<>>]
    ELSE LET diffs == diffConfigs(configA, configB)
         IN [name |-> name,
             status |-> IF Len(diffs) = 0 THEN "identical" ELSE "different",
             diffs |-> diffs, configA |-> configA, configB |-> configB]

\* configA and configB are what Map.get returned: the merged object or Undefined
compareConfig(name, configA, configB) ==
    IF Truthy(configA) /\ ~Truthy(configB)
    THEN [name |-> name, status |-> "only_in_a", diffs |-> <<>>, configA |-> configA]
    ELSE IF ~Truthy(configA) /\ Truthy(configB)
    THEN [name |-> name, status |-> "only_in_b", diffs |-> <<>>, configB |-> configB]
    ELSE LET diffs == diffConfigs(configA, configB)
         IN IF Len(diffs) = 0
            THEN [name |-> name, status |-> "identical", diffs |-> <<>>,
                  configA |-> configA, configB |-> configB]
            ELSE [name |-> name, status |-> "different", diffs |-> diffs,
                  configA |-> configA, configB |-> configB]

WithCompareStatus(comparisons, status) ==
    Len(SelectSeq(comparisons, LAMBDA c : c.status = status))

\* the summary of compareChannels that counts the listed entries only
calculateCompareSummaryListed(comparisons, totalA, totalB, totalUnique) ==
    [identical |-> WithCompareStatus(comparisons, "identical"),
     different |-> WithCompareStatus(comparisons, "different"),
     onlyInA |-> WithCompareStatus(comparisons, "only_in_a"),
     onlyInB |-> WithCompareStatus(comparisons, "only_in_b")]

\* calculateSummary of deep-merge.ts
calculateCompareSummary(comparisons, totalA, totalB, totalUnique) ==
    [identical |-> IF Len(comparisons) < totalUnique
                   THEN totalUnique - Len(comparisons)
                   ELSE WithCompareStatus(comparisons, "identical"),
     different |-> WithCompareStatus(comparisons, "different"),
     onlyInA |-> WithCompareStatus(comparisons, "only_in_a"),
     onlyInB |-> WithCompareStatus(comparisons, "only_in_b")]

\* new Map(ch.configs.map((c) => [c.name, c.merged]))
ConfigsByName(ch) ==
    buildConfigMapFrom([i \in 1..Len(ch.configs) |->
                           <<ch.configs[i].name, ch.configs[i].merged>>],
                       Len(ch.configs))

\* map.get(name)
MapGet(map, name) == IF name \in DOMAIN map THEN map[name] ELSE Undefined

ChannelNotFoundError(channelName) == [error |-> <<"Channel '", channelName, "' not found">>]

\* compareChannels on the loaded channels of the project; the timestamp is
\* left out
compareChannels(loadedChannels, channelA, channelB, compareOptions) ==
    LET found(name) == SelectSeq(loadedChannels, LAMBDA ch : ch.name = name)
    IN IF found(channelA) = <<>> THEN ChannelNotFoundError(channelA)
       ELSE IF found(channelB) = <<>> THEN ChannelNotFoundError(channelB)
       ELSE
         LET chA == found(channelA)[1]
             chB == found(channelB)[1]
             configsA == ConfigsByName(chA)
             configsB == ConfigsByName(chB)
             allConfigNames ==
                 AddUnique(<<>>, [i \in 1..Len(chA.configs) |-> chA.configs[i].name]
                                 \o [i \in 1..Len(chB.configs) |-> chB.configs[i].name])
             all == [i \in 1..Len(allConfigNames) |->
                        compareConfig(allConfigNames[i],
                                      MapGet(configsA, allConfigNames[i]),
                                      MapGet(configsB, allConfigNames[i]))]
             comparisons == IF compareOptions.differencesOnly
                            THEN SelectSeq(all, LAMBDA c : c.status # "identical")
                            ELSE all
         IN [channelA |-> channelA,
             channelB |-> channelB,
             configs |-> comparisons,
             summary |-> calculateCompareSummary(comparisons,
                                                 Cardinality(DOMAIN configsA),
                                                 Cardinality(DOMAIN configsB),
                                                 Len(allConfigNames))]

MaxCompareCalls == 2

\* merged objects of x.yaml and x.yml
CompareObjectsX ==
    { Obj(<<<<"a", Num("1")>>>>), Obj(<<<<"a", Num("2")>>>>) }

\* merged objects of n.yaml; the first differs from one of x in $schema only
CompareObjects ==
    { Obj(<<<<"$schema", Str("s")>>, <<"a", Num("1")>>>>) } \cup CompareObjectsX

\* the configs of a loaded channel, sorted by name: n.yaml or not, and x.yaml,
\* x.yml, both or neither
CompareConfigLists(channelName) ==
    { [i \in 1..Len(ns \o xs) |-> LoadedConfig(channelName, (ns \o xs)[i][1], (ns \o xs)[i][2])] :
        <<ns, xs>> \in ({<<>>} \cup { <<<<"n", o>>>> : o \in CompareObjects })
                       \X ({<<>>} \cup { <<<<"x", o>>>> : o \in CompareObjectsX }
                                  \cup { <<<<"x", o[1]>>, <<"x", o[2]>>>> :
                                            o \in { p \in CompareObjectsX \X CompareObjectsX : p[1] # p[2] } }) }

\* the channel names a call is made with; dk is no channel of the project
ComparePairs ==
    { <<"no", "se">>, <<"se", "no">>, <<"no", "no">>, <<"dk", "se">>, <<"no", "dk">> }

InitCompare ==
    /\ Idle
    /\ \E a \in CompareConfigLists("no"), b \in CompareConfigLists("se") :
          args = [channels |-> <<Channel("no", a), Channel("se", b)>>]
    /\ returned = <<>>

CompareChannels ==
    /\ args # NoArgs
    /\ Len(returned) < MaxCompareCalls
    /\ \E pair \in ComparePairs, differencesOnly \in BOOLEAN :
          returned' = Append(returned,
              [channelA |-> pair[1], channelB |-> pair[2],
               differencesOnly |-> differencesOnly,
               outcome |-> compareChannels(args.channels, pair[1], pair[2],
                                           [differencesOnly |-> differencesOnly])])
    /\ UNCHANGED <<args, runVars>>

SpecCompare == InitCompare /\ [][CompareChannels]_vars

\* the calls of compareChannels that returned a result
Compared == { k \in 1..Len(returned) : "error" \notin DOMAIN returned[k].outcome }

ChannelNamed(name) ==
    args.channels[CHOOSE i \in 1..Len(args.channels) : args.channels[i].name = name]

NamesOf(name) ==
    { ChannelNamed(name).configs[i].name : i \in 1..Len(ChannelNamed(name).configs) }

\* the merged object of the last file of the channel with this config name
LastOf(name, configName) ==
    LET configs == ChannelNamed(name).configs
        last == CHOOSE i \in 1..Len(configs) :
                   /\ configs[i].name = configName
                   /\ \A j \in (i + 1)..Len(configs) : configs[j].name # configName
    IN configs[last].merged

ExpectedStatus(call, configName) ==
    IF configName \notin NamesOf(call.channelB) THEN "only_in_a"
    ELSE IF configName \notin NamesOf(call.channelA) THEN "only_in_b"
    ELSE IF diffConfigs(LastOf(call.channelA, configName),
                        LastOf(call.channelB, configName)) = <<>>
    THEN "identical"
    ELSE "different"

Entries(call) == { call.outcome.configs[i] : i \in 1..Len(call.outcome.configs) }

SwapStatus(status) == CASE status = "only_in_a" -> "only_in_b"
                        [] status = "only_in_b" -> "only_in_a"
                        [] OTHER -> status

SummaryTotal(summary) ==
    summary.identical + summary.different + summary.onlyInA + summary.onlyInB

\* C20: for the same two channels the call with differencesOnly has the
\* summary of the call without it and its list is the other list without the
\* identical entries; in every call the four counts add up to the number of
\* distinct configuration names
C20_DifferencesOnly ==
    /\ \A k \in Compared :
         SummaryTotal(returned[k].outcome.summary)
           = Cardinality(NamesOf(returned[k].channelA) \cup NamesOf(returned[k].channelB))
    /\ \A k, m \in Compared :
         (/\ returned[k].channelA = returned[m].channelA
          /\ returned[k].channelB = returned[m].channelB
          /\ returned[k].differencesOnly
          /\ ~returned[m].differencesOnly)
         => /\ returned[k].outcome.summary = returned[m].outcome.summary
            /\ returned[k].outcome.configs
                 = SelectSeq(returned[m].outcome.configs,
                             LAMBDA c : c.status # "identical")

\* the same channels compared with and without differencesOnly, with an
\* identical entry left out of a list that is not empty
C20_Witness ==
    /\ Len(returned) = 2
    /\ Compared = {1, 2}
    /\ returned[1].channelA = returned[2].channelA
    /\ returned[1].channelB = returned[2].channelB
    /\ returned[1].differencesOnly
    /\ ~returned[2].differencesOnly
    /\ returned[1].outcome.summary.identical = 1
    /\ Len(returned[1].outcome.configs) = 1
    /\ Len(returned[2].outcome.configs) = 2

----
\* runApply from a successful listChannels on: the plan of a project of two
\* channels, the confirmation, applyConfigs; the files and the environment may
\* change between the plan and applyConfigs

\* the channel directory no: absent or x.yaml
ApplyChannelsNo ==
    { <<>>, <<Channel("no", <<LoadedConfig("no", "x", Obj(<<<<"a", Num("1")>>>>))>>)>> }

\* the channel directory se: n.yaml, x.yaml or both
ApplyChannelsSe ==
    { <<Channel("se", [j \in 1..Len(ns \o xs) |->
                          LoadedConfig("se", (ns \o xs)[j][1], (ns \o xs)[j][2])])>> :
        <<ns, xs>> \in ({<<>>, <<<<"n", Obj(<<<<"a", Num("1")>>>>)>>>>}
                        \X {<<>>,
                            <<<<"x", Obj(<<<<"id", Str("x")>>, <<"a", Num("1")>>>>)>>>>,
                            <<<<"x", Obj(<<<<"a", Str("${V}")>>>>)>>>>})
                       \ {<<<<>>, <<>>>>} }

ApplyConfigsProjects == { no \o se : <<no, se>> \in ApplyChannelsNo \X ApplyChannelsSe }

\* remote objects listed for the channel se
ApplyRemoteObjects ==
    { Obj(<<<<"id", Str("x")>>, <<"a", Num("1")>>>>),
      Obj(<<<<"id", Str("n")>>, <<"a", Num("2")>>>>) }

\* the request failure of this run's putConfig calls
ApplyFailures == { [kind |-> "ApiError", statusCode |-> 500] }

InitApplyConfigs ==
    /\ command = "apply"
    /\ pc = "planning"
    /\ config = [token |-> Str("t"), skip |-> TRUE]
    /\ options = [channel |-> ""]
    /\ files \in ApplyConfigsProjects
    /\ env = [name \in {"V"} |-> "v"]
    /\ validationResult = SkippedValidation
    /\ channels = files
    /\ channelsWithSecrets = substituteSecretsInChannels(files, env).channels
    /\ remoteChannels \in { {}, {"se"}, {"demo", "se"} }
    /\ channelPlans = <<>>
    /\ lookups = <<>>
    /\ plan = NoPlan
    /\ error = NoError
    /\ configsToApply = <<>>
    /\ configMap = [k \in {} |-> EmptyObject]
    /\ results = <<>>
    /\ applyResult = NoResult
    /\ calls = << Call("listChannels", "", "", NoFailure) >>
    /\ store = EmptyStore
    /\ NoCall

\* somebody edits the project's files after the plan was made and before
\* applyConfigs loads them
ChangeFiles ==
    /\ pc \in {"planned", "apply"}
    /\ files = channels
    /\ files' \in ApplyConfigsProjects \ {files}
    /\ UNCHANGED <<command, config, options, env, store, callVars, planVars, pc, error,
                   applyVars, calls>>

\* the variable V gets another value, or is unset, after the plan was made and
\* before applyConfigs reads the environment
ChangeEnvironment ==
    /\ pc \in {"planned", "apply"}
    /\ env = [name \in {"V"} |-> "v"]
    /\ env' \in { [name \in {"V"} |-> "w"], [name \in {} |-> "v"] }
    /\ UNCHANGED <<command, config, options, files, store, callVars, planVars, pc, error,
                   applyVars, calls>>

NextApplyConfigs == \/ GenerateChannelPlan(ApplyRemoteObjects)
                    \/ Summarize
                    \/ ApplyDecide
                    \/ ChangeFiles
                    \/ ChangeEnvironment
                    \/ ApplyPrepare
                    \/ PutConfigWith(ApplyFailures)
                    \/ ApplyFinish

SpecApplyConfigs == InitApplyConfigs /\ [][NextApplyConfigs]_vars

\* the (channel, config, status) entries of the plan, in plan order
PlanEntries ==
    Flatten([c \in 1..Len(plan.channels) |->
        [j \in 1..Len(plan.channels[c].configs) |->
            [channel |-> plan.channels[c].channel,
             configName |-> plan.channels[c].configs[j].name,
             status |-> plan.channels[c].configs[j].status]]])

\* applyConfigs has computed its list of configs to apply
ListComputed == command = "apply" /\ (pc = "putting" \/ applyResult # NoResult)

PutCalls == SelectSeq(calls, LAMBDA call : call.op = "putConfig")

\* C21: the list applyConfigs works from is the plan's entries with status
\* 'create' or 'update', in plan order; every putConfig call is for a pair of
\* that list, put no more often than the list holds it; no putConfig is made for an 'unchanged'
\* config or for a channel that is not a local one, and no other writing call
\* is made
C21_OnlyChanged ==
    /\ ListComputed =>
         configsToApply = SelectSeq(PlanEntries,
                                    LAMBDA e : e.status \in {"create", "update"})
    /\ \A k \in 1..Len(PutCalls) :
         /\ \E e \in { configsToApply[i] : i \in 1..Len(configsToApply) } :
               /\ e.channel = PutCalls[k].channel
               /\ e.configName = PutCalls[k].config
               /\ e.status \in {"create", "update"}
         /\ \A e \in { PlanEntries[i] : i \in 1..Len(PlanEntries) } :
               (e.channel = PutCalls[k].channel /\ e.configName = PutCalls[k].config)
                  => e.status # "unchanged"
         /\ PutCalls[k].channel \in { channels[c].name : c \in 1..Len(channels) }
         /\ Cardinality({ m \in 1..Len(PutCalls) :
                             /\ PutCalls[m].channel = PutCalls[k].channel
                             /\ PutCalls[m].config = PutCalls[k].config })
              <= Cardinality({ i \in 1..Len(configsToApply) :
                                 /\ configsToApply[i].channel = PutCalls[k].channel
                                 /\ configsToApply[i].configName = PutCalls[k].config })
    /\ \A call \in CallsMade : call.op \in {"listChannels", "listConfigs", "putConfig"}

\* an apply that is over, of a plan with an unchanged config, a changed one
\* that was put, and an unmanaged remote channel
C21_Witness ==
    /\ applyResult # NoResult
    /\ plan.summary.unchanged = 1
    /\ plan.summary.unmanaged = 1
    /\ Len(configsToApply) = 2
    /\ Len(PutCalls) = 2

\* C22: the ApplyResult holds one result per config to apply, in order;
\* succeeded + failed is their number, success means failed = 0, failed counts
\* the results that are no success, and every putConfig call that failed has
\* a result with success false and an error message; no failure of a
\* putConfig call ends the loop
C22_OneResultEach ==
    /\ pc = "putting" => error = NoError
    /\ (\E call \in CallsMade : call.op = "putConfig") => pc \in {"putting", "done"}
    /\ \A k \in 1..Len(PutCalls) :
          PutCalls[k].failure # NoFailure =>
             \E i \in 1..Len(results) :
                /\ results[i].channel = PutCalls[k].channel
                /\ results[i].config = PutCalls[k].config
                /\ ~results[i].success
                /\ results[i].error # <<>>
    /\ applyResult # NoResult =>
         /\ Len(applyResult.results) = Len(configsToApply)
         /\ \A i \in 1..Len(configsToApply) :
               /\ applyResult.results[i].channel = configsToApply[i].channel
               /\ applyResult.results[i].config = configsToApply[i].configName
         /\ applyResult.summary.succeeded + applyResult.summary.failed
               = Len(configsToApply)
         /\ applyResult.summary.failed
               = Cardinality({ i \in 1..Len(applyResult.results) :
                                 ~applyResult.results[i].success })
         /\ applyResult.success <=> (applyResult.summary.failed = 0)

\* an apply of two configs whose first putConfig failed and whose second
\* succeeded
C22_Witness ==
    /\ applyResult # NoResult
    /\ Len(applyResult.results) = 2
    /\ Len(PutCalls) = 2
    /\ PutCalls[1].failure # NoFailure
    /\ ~applyResult.results[1].success
    /\ applyResult.results[2].success
    /\ ~applyResult.success

\* the token as the documentation resolves it: NCOCTL_API_TOKEN of the
\* environment before api.token of the project config
DocumentedToken ==
    IF "NCOCTL_API_TOKEN" \in DOMAIN env THEN Str(env["NCOCTL_API_TOKEN"]) ELSE config.token

\* C23 as stated: once generatePlan has returned a Plan in an apply run,
\* applyConfigs does not fail with 'API token required', and the token it
\* makes its requests with is the one generatePlan resolved
C23_SameToken ==
    command = "apply" =>
        /\ plan # NoPlan => error # TokenRequired("NCO_API_TOKEN")
        /\ pc = "putting" => ApplyToken(env, config) = DocumentedToken

----
\* cli plan command: the exit code of runPlan

EXIT_SUCCESS == 0

EXIT_FATAL_ERROR == 2

\* the catch of runPlan, branch by branch
runPlanCatch(err) ==
    CASE err.name = "PlanValidationError" -> EXIT_FATAL_ERROR
      [] err.name = "ApiError" -> EXIT_FATAL_ERROR
      [] err.name = "ProjectConfigError" -> EXIT_FATAL_ERROR
      [] err.name = "YamlLoadError" -> EXIT_FATAL_ERROR
      [] OTHER -> EXIT_FATAL_ERROR

\* the code a finished run of the plan command exits with
runPlanExit == IF pc = "done" THEN EXIT_SUCCESS ELSE runPlanCatch(error)

\* C24 as stated: the plan command exits with 0 when a Plan was generated,
\* with 1 when validation errors kept it from being generated, and with 2 on
\* any other error
C24_ExitCodes ==
    (command = "plan" /\ pc \in {"done", "failed"}) =>
        runPlanExit = (IF plan # NoPlan THEN 0
                       ELSE IF error.name = "PlanValidationError" THEN 1
                       ELSE 2)

----
\* The stages of generatePlan

\* the stage after each stage of a run that goes on
StageAfter ==
    [validate |-> "load", load |-> "environment", environment |-> "listChannels",
     listChannels |-> "planning", planning |-> "done"]

\* what holds of a run at every moment, stage by stage
StagesInOrder ==
    /\ pc \in {"load", "environment", "listChannels", "planning", "done"}
          => validationResult # NoValidation /\ validationResult.valid
    /\ pc \in {"environment", "listChannels", "planning", "done"}
          => channels = PlannedChannels
    /\ pc \in {"listChannels", "planning", "done"}
          => channelsWithSecrets = substituteSecretsInChannels(PlannedChannels, env).channels
    /\ pc \in {"planning", "done"}
          => calls[1] = Call("listChannels", "", "", NoFailure)
    /\ calls # <<>>
          => /\ calls[1].op = "listChannels"
             /\ validationResult # NoValidation /\ validationResult.valid
             /\ channelsWithSecrets
                  = substituteSecretsInChannels(PlannedChannels, env).channels
    /\ \A k \in 2..Len(calls) :
          /\ calls[k].op = "listConfigs"
          /\ calls[1].failure = NoFailure
          /\ calls[k].channel \in remoteChannels
    /\ Len(channelPlans) <= Len(channelsWithSecrets)
    /\ \A i \in 1..Len(channelPlans) :
          channelPlans[i].channel = channelsWithSecrets[i].name
    /\ Len(SelectSeq(calls, LAMBDA call : call.op = "listConfigs")) <= Len(channelPlans) + 1
    /\ plan # NoPlan
          => /\ pc = "done"
             /\ Len(channelPlans) = Len(PlannedChannels)
             /\ plan.channels = channelPlans

\* a step of the run moves to the next stage, plans one more channel, or fails
StageStep ==
    /\ pc' \in {pc, "failed"} \/ (pc \in DOMAIN StageAfter /\ pc' = StageAfter[pc])
    /\ Len(channelPlans') \in {Len(channelPlans), Len(channelPlans) + 1}
    /\ Len(channelPlans') = Len(channelPlans) + 1 => pc = "planning" /\ pc' = "planning"
    /\ plan' # plan => /\ pc = "planning"
                       /\ Len(channelPlans) = Len(channelsWithSecrets)

\* C25: a run of generatePlan goes through validation, loading, substitution,
\* the listing of the remote channels, the planning of the channels one at a
\* time and the summary in this order: listChannels is called after a passed
\* validation and the substitution of every planned config, listConfigs only
\* after a successful listChannels and only for channels that exist remotely,
\* and a Plan is returned only after every channel was planned
C25_Stages == []StagesInOrder /\ [][StageStep]_vars

\* a returned Plan of two channels, one of them listed remotely
C25_Witness ==
    /\ command = "plan"
    /\ plan # NoPlan
    /\ Len(plan.channels) = 2
    /\ Len(calls) = 2
    /\ ~config.skip

\* C26: the ChannelPlans computed so far are for the first loaded channels, in
\* their order, each with one ConfigPlan per config of the channel, in the
\* channel's order and under the config's name; a returned Plan holds one
\* ChannelPlan for every loaded channel
C26_OrderKept ==
    /\ Len(channelPlans) <= Len(channels)
    /\ \A i \in 1..Len(channelPlans) :
          /\ channelPlans[i].channel = channels[i].name
          /\ Len(channelPlans[i].configs) = Len(channels[i].configs)
          /\ \A j \in 1..Len(channels[i].configs) :
                channelPlans[i].configs[j].name = channels[i].configs[j].name
    /\ plan # NoPlan =>
          /\ plan.channels = channelPlans
          /\ Len(plan.channels) = Len(channels)

\* a returned Plan of two channels, the second with the configs n and x
C26_Witness ==
    /\ plan # NoPlan
    /\ Len(plan.channels) = 2
    /\ Len(plan.channels[2].configs) = 2
    /\ plan.channels[2].configs[1].name # plan.channels[2].configs[2].name
    /\ plan.channels[2].configs[1].status # plan.channels[2].configs[2].status

\* the names of the project's channel directories
LocalChannelNames == { files[c].name : c \in 1..Len(files) }

\* C27 as stated: a returned Plan counts as unmanaged the remote channels that
\* have no channel directory in the project, with options.channel or without
C27_UnmanagedOfProject ==
    (command = "plan" /\ plan # NoPlan) =>
        plan.summary.unmanaged = Cardinality(remoteChannels \ LocalChannelNames)

----
\* deepMerge applied again with the same overlay

\* deepMerge(deepMerge(base, overlay), overlay), after the first call returned
DeepMergeAgain ==
    /\ args # NoArgs
    /\ Len(returned) = 1
    /\ returned' = Append(returned, deepMerge(returned[1], args.overlay))
    /\ UNCHANGED <<args, runVars>>

NextMergeAgain == DeepMerge \/ DeepMergeAgain

SpecMergeAgain == InitMerge /\ [][NextMergeAgain]_vars

\* C28 as stated: merging the overlay into the result of the merge once more
\* gives a structurally equal result
C28_Idempotent ==
    Len(returned) = 2 => Plain(returned[2]) = Plain(returned[1])

----
\* the objects generatePlan diffed for a (channel, config) pair: the merged,
\* substituted objects of the channel's configs of that name
PlannedObjects(channelName, configName) ==
    UNION { { Plain(channelsWithSecrets[c].configs[j].merged) :
                j \in { j \in 1..Len(channelsWithSecrets[c].configs) :
                          channelsWithSecrets[c].configs[j].name = configName } } :
            c \in { c \in 1..Len(channelsWithSecrets) :
                      channelsWithSecrets[c].name = channelName } }

\* C30: every putConfig call sends the object generatePlan diffed for its
\* (channel, config) pair, whatever happened to the files and the environment
\* after the plan; a config to apply that the config map lacks has a failed
\* result 'Configuration content not found' and no putConfig call
C30_PlannedObjectSent ==
    /\ \A k \in 1..Len(PutCalls) :
          Plain(PutCalls[k].body) \in PlannedObjects(PutCalls[k].channel, PutCalls[k].config)
    /\ \A i \in 1..Len(results) :
          MapKey(results[i].channel, results[i].config) \notin DOMAIN configMap
             => /\ ~results[i].success
                /\ results[i].error = <<"Configuration content not found">>
                /\ \A k \in 1..Len(PutCalls) :
                      ~(PutCalls[k].channel = results[i].channel
                        /\ PutCalls[k].config = results[i].config)

----
\* runApply against a remote store that keeps what putConfig sends and lists
\* what it keeps, followed by generatePlan on the same files

\* the channel directory se: n.yaml (without id, or with the id x), x.yaml or both
ConvergeProjects ==
    { <<Channel("se", [j \in 1..Len(ns \o xs) |->
                          LoadedConfig("se", (ns \o xs)[j][1], (ns \o xs)[j][2])])>> :
        <<ns, xs>> \in ({<<>>,
                         <<<<"n", Obj(<<<<"a", Num("1")>>>>)>>>>,
                         <<<<"n", Obj(<<<<"id", Str("x")>>, <<"a", Num("1")>>>>)>>>>}
                        \X {<<>>,
                            <<<<"x", Obj(<<<<"id", Str("x")>>, <<"a", Num("1")>>>>)>>>>,
                            <<<<"x", Obj(<<<<"id", Str("x")>>, <<"a", Str("${V}")>>>>)>>>>})
                       \ {<<<<>>, <<>>>>} }

\* what the channel se holds before the run: nothing, or an object with the id
\* x under the name x, and possibly one with the id n under the name y
ConvergeStores ==
    { [k \in ({<<"se", "x">>} \cap xs) \cup ({<<"se", "y">>} \cap ys) |->
          IF k[2] = "x" THEN xo ELSE Obj(<<<<"id", Str("n")>>, <<"a", Num("2")>>>>)] :
        <<xs, xo, ys>> \in (SUBSET {<<"se", "x">>})
                            \X { Obj(<<<<"id", Str("x")>>, <<"a", Num(v)>>>>) : v \in {"1", "2"} }
                            \X (SUBSET {<<"se", "y">>}) }

\* the channels the store holds an object of
StoredChannels(st) == { k[1] : k \in DOMAIN st }

\* what listConfigs can return for a channel of the store: its objects, in any order
StoreListings(st, channelName) ==
    LET keys == { k \in DOMAIN st : k[1] = channelName }
        n == Cardinality(keys)
    IN { [i \in 1..n |-> st[order[i]]] :
           order \in { f \in [1..n -> keys] : \A i, j \in 1..n : f[i] = f[j] => i = j } }

InitConverge ==
    /\ command = "apply"
    /\ pc = "planning"
    /\ config = [token |-> Str("t"), skip |-> TRUE]
    /\ options = [channel |-> ""]
    /\ files \in ConvergeProjects
    /\ env = [name \in {"V"} |-> "v"]
    /\ validationResult = SkippedValidation
    /\ channels = files
    /\ channelsWithSecrets = substituteSecretsInChannels(files, env).channels
    /\ store \in ConvergeStores
    /\ remoteChannels \in { StoredChannels(store), {"se"} }
    /\ channelPlans = <<>>
    /\ lookups = <<>>
    /\ plan = NoPlan
    /\ error = NoError
    /\ configsToApply = <<>>
    /\ configMap = [k \in {} |-> EmptyObject]
    /\ results = <<>>
    /\ applyResult = NoResult
    /\ calls = << Call("listChannels", "", "", NoFailure) >>
    /\ NoCall

\* the name of the channel generatePlan's loop plans next ("" after the last)
NextChannelName ==
    IF Len(channelPlans) < Len(channelsWithSecrets)
    THEN channelsWithSecrets[Len(channelPlans) + 1].name
    ELSE ""

\* generateChannelPlan with listConfigs answered from the store
GenerateChannelPlanStored ==
    GenerateChannelPlanFrom(StoreListings(store, NextChannelName), {})

\* generatePlan called again once runApply is over, up to its loop over the
\* channels: same files and environment, listChannels answered from the
\* store; what applyConfigs returned is kept
PlanAgain ==
    /\ command = "apply"
    /\ pc = "done"
    /\ command' = "plan"
    /\ pc' = "planning"
    /\ channels' = FilterChannels(files, options.channel)
    /\ channelsWithSecrets' = substituteSecretsInChannels(channels', env).channels
    /\ remoteChannels' = remoteChannels \cup StoredChannels(store)
    /\ channelPlans' = <<>>
    /\ lookups' = <<>>
    /\ plan' = NoPlan
    /\ calls' = Append(calls, Call("listChannels", "", "", NoFailure))
    /\ UNCHANGED <<config, options, files, env, store, validationResult, error,
                   applyVars, callVars>>

NextConverge == \/ GenerateChannelPlanStored
                \/ Summarize
                \/ ApplyDecide
                \/ ApplyPrepare
                \/ PutConfigWith(ApplyFailures)
                \/ ApplyFinish
                \/ PlanAgain

SpecConverge == InitConverge /\ [][NextConverge]_vars

\* C29: a plan made after applyConfigs succeeded for every config it had to
\* apply has no 'create' and no 'update': every local config is 'unchanged'
C29_Converges ==
    (command = "plan" /\ plan # NoPlan /\ applyResult # NoResult /\ applyResult.success) =>
        /\ plan.summary.creates = 0
        /\ plan.summary.updates = 0
        /\ \A e \in { PlanEntries[i] : i \in 1..Len(PlanEntries) } : e.status = "unchanged"

====
